---- MODULE Spec2Model ----
(***************************************************************************)
(* Model of the CheeseMiss news aggregation engine.                        *)
(*                                                                         *)
(*   - the /api/news GET handler (src/src/app/api/news/route.ts): the      *)
(*     fallback chain Gemini -> web search (Tavily, Serper) -> NewsAPI,    *)
(*     with the 60 s sticky in-memory cache;                               *)
(*   - the RSS GET handler (src/unnamed/part_005, third route of the       *)
(*     file): cache first, then searchWithRSS, with its own 5 min cache;   *)
(*   - the fixed-window rate limiters of the TL;DR route                   *)
(*     (src/src/app/api/tldr/route.ts): in memory and on Upstash Redis.    *)
(*                                                                         *)
(* The handlers live in different route modules and share no state, so    *)
(* one behaviour exercises one of them: the variable route, fixed by the   *)
(* initial predicate, says which.  Spec and SpecCache run the two GET      *)
(* handlers, SpecRL the rate limiter.  Time is the wall clock in           *)
(* milliseconds (Date.now()), sampled at the instants around the           *)
(* multiples of the cache TTL (GET) or of the second (limiter).            *)
(***************************************************************************)
EXTENDS Integers, Sequences, FiniteSets, TLC

VARIABLES
    route,          \* "news" | "rss" | "tldr" | "tldr+upstash": the route (and deployment) run
    now,            \* Date.now(), in ms
    memoryCache,    \* news route: Map key -> {ts, articles, providerTrace}, in insertion order
    rssMemoryCache, \* RSS route: the same Map of that module
    req,            \* per request slot: the handler's locals and its position
    lastDone,       \* history: the response that was sent last
    memBuckets,     \* TL;DR route: Map ip -> {count, resetSec}
    redis,          \* the Upstash store: key -> {count, expireAt}
    rlReq,          \* per POST slot: the locals of checkRateLimitUpstash in flight
    rlLog,          \* history: the verdicts of the limiter, in the order given
    pure            \* a library function applied on its own: its name, argument and result

rlVars == <<memBuckets, redis, rlReq, rlLog>>

vars == <<route, now, memoryCache, rssMemoryCache, req, lastDone,
          memBuckets, redis, rlReq, rlLog, pure>>

----------------------------------------------------------------------------
(* Bounds of the model *)

MaxWindows == 1     \* the clock runs over this many TTL periods
MaxItems == 1       \* an upstream answers with at most this many articles
MaxSec == 7         \* the limiter's clock runs over this many seconds
MaxCalls == 3       \* the limiter is asked at most this many verdicts
MaxLen == 3         \* a library function is applied to lists of at most this length
MaxFeedItems == 2   \* the feeds of one searchWithRSS call hold at most this many items
MaxUpstream == 2    \* an upstream answer handed to an adapter holds at most this many items
MaxDate == 3        \* the dates of a window call parse to times up to this
MaxInFlight == 2    \* the feed page has at most this many requests in flight

(* Program constants *)

CACHE_TTL_MS == 60000
\* 100 in the source; scaled so that a handful of keys overflows the cache
MAX_CACHE_ENTRIES == 2
RSS_CACHE_TTL_MS == 300000
\* 200 in the source; scaled likewise
RSS_MAX_CACHE_ENTRIES == 2
maxConcurrent == 2      \* searchWithRSS: feeds fetched at a time (5 in the source)

\* The request slots: the requests in flight at the same time
Reqs == {"r1"}

----------------------------------------------------------------------------
(* Time *)

TtlOf(rt) == IF rt = "news" THEN CACHE_TTL_MS ELSE RSS_CACHE_TTL_MS

\* The sampled instants: each multiple of the TTL and one ms before and
\* after it.
Times(rt) ==
    LET ttl == TtlOf(rt)
        pts == { k * ttl + d : k \in 0 .. MaxWindows, d \in {-1, 0, 1} }
    IN { t \in pts : t >= 0 }

\* The instants of the cache specification: two within the TTL of each
\* other and one past it.
CoarseTimes(rt) == { 0, 1, TtlOf(rt) + 1 }

\* The first instant of T after t
NextTime(T, t) ==
    LET later == { u \in T : u > t }
    IN CHOOSE u \in later : \A v \in later : u <= v

----------------------------------------------------------------------------
(* Articles.  A URL is <<host, provider, n, query>> (the path is the pair   *)
(* provider, n), or << >> when absent.  A title is <<provider, n, form>>,   *)
(* or << >> when empty; form is how it is written.                          *)

NoUrl == << >>
NoTitle == << >>

EXCLUDE_DOMAINS ==
    { "news.google.com", "news.yahoo.com", "yahoo.com", "msn.com", "pressreader.com",
      "facebook.com", "twitter.com", "x.com", "reddit.com", "youtube.com" }

\* .replace(/^www\./, ''), on the hostnames of the model
StripWww ==
    [ h \in {"www.rappler.com", "www.youtube.com"} |->
        IF h = "www.rappler.com" THEN "rappler.com" ELSE "youtube.com" ]

\* new URL(u).hostname.replace(/^www\./, ''), '' for an absent URL
getHostname(u) ==
    IF u = NoUrl THEN ""
    ELSE IF u[1] \in DOMAIN StripWww THEN StripWww[u[1]] ELSE u[1]

\* (a.url || '').split('?')[0]: the URL without its query string
CanonUrl(u) == IF u = NoUrl THEN << >> ELSE <<u[1], u[2], u[3]>>

\* (t || '').toLowerCase().replace(/\s+/g, ' ').trim(): every written form of a
\* title ("plain", "Caps", "spaced") has the same normal form
normalizeTitle(t) == IF t = NoTitle THEN NoTitle ELSE <<t[1], t[2], "plain">>

\* An article built by a provider adapter from the n-th item of an upstream
\* answer received at time t.  fetchedAt is history: the articles of a
\* request are built afresh from the upstream answer.
Article(prov, n, t) ==
    [ url       |-> <<"rappler.com", prov, n, "">>,
      title     |-> <<prov, n, "Caps">>,
      fetchedAt |-> t ]

Items(prov, n, t) == [ i \in 1 .. n |-> Article(prov, i, t) ]

\* The articles as an adapter returns them for a request of a category: every
\* adapter of the news route stores normalizeCategoryKey(category)
Tagged(items, category) ==
    [ i \in 1 .. Len(items) |->
        [ url       |-> items[i].url,
          title     |-> items[i].title,
          fetchedAt |-> items[i].fetchedAt,
          category  |-> category ] ]

----------------------------------------------------------------------------
(* dedupeArticles of the news route *)

\* Position of key k in an insertion-ordered map (a sequence of <<key, value>>),
\* 0 when absent.
MapIndex(m, k) ==
    IF \E i \in 1 .. Len(m) : m[i][1] = k
    THEN CHOOSE i \in 1 .. Len(m) : m[i][1] = k
    ELSE 0

MapHas(m, k) == MapIndex(m, k) # 0

\* The for loop over items: fills byUrl and byTitle, first occurrence wins.
RECURSIVE DedupeScan(_, _, _, _)
DedupeScan(items, i, byUrl, byTitle) ==
    IF i > Len(items) THEN <<byUrl, byTitle>>
    ELSE
        LET a        == items[i]
            keyUrl   == CanonUrl(a.url)
            keyTitle == normalizeTitle(a.title)
            host     == getHostname(a.url)
        IN  IF host \in EXCLUDE_DOMAINS
            THEN DedupeScan(items, i + 1, byUrl, byTitle)
            ELSE IF keyUrl # << >> /\ ~MapHas(byUrl, keyUrl)
            THEN DedupeScan(items, i + 1, Append(byUrl, <<keyUrl, a>>), byTitle)
            ELSE IF keyTitle # NoTitle /\ ~MapHas(byTitle, keyTitle)
            THEN DedupeScan(items, i + 1, byUrl, Append(byTitle, <<keyTitle, a>>))
            ELSE DedupeScan(items, i + 1, byUrl, byTitle)

\* The second loop: a title-map article is pushed unless merged already holds
\* an article of that normalized title.
RECURSIVE DedupeMerge(_, _, _)
DedupeMerge(byTitle, i, merged) ==
    IF i > Len(byTitle) THEN merged
    ELSE
        LET t   == byTitle[i][1]
            art == byTitle[i][2]
        IN  IF \E j \in 1 .. Len(merged) : normalizeTitle(merged[j].title) = t
            THEN DedupeMerge(byTitle, i + 1, merged)
            ELSE DedupeMerge(byTitle, i + 1, Append(merged, art))

\* Mutant of dedupeArticles: the title-keyed articles come first.
dedupeTitleFirst(items) ==
    LET maps   == DedupeScan(items, 1, << >>, << >>)
        byUrl  == maps[1]
        merged == [ j \in 1 .. Len(byUrl) |-> byUrl[j][2] ]
        all    == DedupeMerge(maps[2], 1, merged)
    IN  SubSeq(all, Len(merged) + 1, Len(all)) \o merged

dedupeArticles(items) ==
    LET maps   == DedupeScan(items, 1, << >>, << >>)
        byUrl  == maps[1]
        merged == [ j \in 1 .. Len(byUrl) |-> byUrl[j][2] ]
    IN  DedupeMerge(maps[2], 1, merged)

\* No library function is applied on its own
NoCall == [ fn |-> "", depth |-> 0, arg |-> << >>, ret |-> << >> ]

\* The lists over S of length at most n
RECURSIVE ListsUpTo(_, _)
ListsUpTo(S, n) ==
    IF n = 0 THEN { << >> }
    ELSE LET shorter == ListsUpTo(S, n - 1)
         IN  shorter \cup { Append(l, x) : l \in { k \in shorter : Len(k) = n - 1 }, x \in S }

\* The articles dedupeArticles is applied to: URLs absent, equal, equal up to
\* the query string, different, and on a deny-listed host; titles absent,
\* equal, equal up to their written form, and different.
DedupeUrls ==
    { NoUrl,
      <<"rappler.com", "story", 1, "">>,
      <<"rappler.com", "story", 1, "utm_source=feed">>,
      <<"rappler.com", "story", 2, "">>,
      <<"www.youtube.com", "story", 1, "">> }

DedupeTitles ==
    { NoTitle, <<"story", 1, "Caps">>, <<"story", 1, "plain">>, <<"story", 2, "Caps">> }

DedupeArticles == [ url : DedupeUrls, title : DedupeTitles, fetchedAt : {0} ]

\* dedupeArticles(arg) is called
CallDedupe ==
    /\ route = "lib"
    /\ pure.fn = "dedupeArticles"
    /\ pure.depth = 0
    /\ pure' = [ pure EXCEPT !.depth = 1, !.ret = dedupeArticles(pure.arg) ]
    /\ UNCHANGED <<route, now, memoryCache, rssMemoryCache, req, lastDone,
                   memBuckets, redis, rlReq, rlLog>>

\* dedupeArticles is called again, on what it returned
CallDedupeAgain ==
    /\ route = "lib"
    /\ pure.fn = "dedupeArticles"
    /\ pure.depth = 1
    /\ pure' = [ pure EXCEPT !.depth = 2, !.arg = pure.ret,
                             !.ret = dedupeArticles(pure.ret) ]
    /\ UNCHANGED <<route, now, memoryCache, rssMemoryCache, req, lastDone,
                   memBuckets, redis, rlReq, rlLog>>

----------------------------------------------------------------------------
(* Request parameters and the cache key *)

\* parseParams: the parameter tuples of the model (q, from, to absent)
Params ==
    [ category : {"all", "dpwh", "nepo-babies"},
      query    : {"null"},
      from     : {"null"},
      to       : {"null"},
      page     : {1},
      pageSize : {20} ]

\* The requests of the chain specification all carry one parameter tuple.
ChainParams == { p \in Params : p.category = "all" }

\* Mutant of makeKey: the category is left out of the key
makeKeyNoCategory(p) == <<"all", p.query, p.from, p.to, p.page, p.pageSize>>

\* JSON.stringify(params): injective on the parameter tuples
makeKey(p) == <<p.category, p.query, p.from, p.to, p.page, p.pageSize>>

----------------------------------------------------------------------------
(* The sticky cache of the news route.  A Map is a sequence of entries in   *)
(* insertion order; Map.set of a key it holds keeps the key's position.     *)

Entry(key, ts, articles, providerTrace) ==
    [ key |-> key, ts |-> ts, articles |-> articles, providerTrace |-> providerTrace ]

EntryIndex(m, key) ==
    IF \E i \in 1 .. Len(m) : m[i].key = key
    THEN CHOOSE i \in 1 .. Len(m) : m[i].key = key
    ELSE 0

\* memoryCache.get(key): << >> (undefined) or <<entry>>
MapGet(m, key) ==
    IF EntryIndex(m, key) = 0 THEN << >> ELSE << m[EntryIndex(m, key)] >>

\* memoryCache.set(key, value)
MapSet(m, e) ==
    IF EntryIndex(m, e.key) = 0 THEN Append(m, e)
    ELSE [ m EXCEPT ![EntryIndex(m, e.key)] = e ]

\* memoryCache.delete(key)
MapDelete(m, key) ==
    LET i == EntryIndex(m, key)
    IN  IF i = 0 THEN m
        ELSE [ j \in 1 .. Len(m) - 1 |-> IF j < i THEN m[j] ELSE m[j + 1] ]

\* Mutant of getCached: an entry never expires.
getCachedNoExpiry(key) == MapGet(memoryCache, key)

\* getCached(key): the entry when Date.now() - entry.ts < CACHE_TTL_MS, else null
getCached(key) ==
    LET entry == MapGet(memoryCache, key)
    IN  IF entry # << >> /\ now - entry[1].ts < CACHE_TTL_MS THEN entry ELSE << >>

\* Mutant of ScanOldest: the comparison is turned round.
RECURSIVE ScanNewest(_, _, _)
ScanNewest(m, i, oldest) ==
    IF i > Len(m) THEN oldest
    ELSE IF oldest = 0 \/ m[i].ts > m[oldest].ts
    THEN ScanNewest(m, i + 1, i)
    ELSE ScanNewest(m, i + 1, oldest)

\* The scan of setCached: oldest = 0 stands for (oldestKey = null, oldestTs =
\* Infinity); a later entry replaces the candidate only when strictly older.
RECURSIVE ScanOldest(_, _, _)
ScanOldest(m, i, oldest) ==
    IF i > Len(m) THEN oldest
    ELSE IF oldest = 0 \/ m[i].ts < m[oldest].ts
    THEN ScanOldest(m, i + 1, i)
    ELSE ScanOldest(m, i + 1, oldest)

\* Mutant of setCached: nothing is written.
setCachedNoWrite(key, articles, providerTrace) == memoryCache

\* setCached(key, articles, providerTrace): the Map after the call
setCached(key, articles, providerTrace) ==
    LET m == MapSet(memoryCache, Entry(key, now, articles, providerTrace))
    IN  IF Len(m) > MAX_CACHE_ENTRIES
        THEN LET o == ScanOldest(m, 1, 0)
             IN  IF o # 0 THEN MapDelete(m, m[o].key) ELSE m
        ELSE m

----------------------------------------------------------------------------
(* The cache of the RSS route *)

rssGetCached(key) ==
    LET entry == MapGet(rssMemoryCache, key)
    IN  IF entry # << >> /\ now - entry[1].ts < RSS_CACHE_TTL_MS THEN entry ELSE << >>

\* Array.prototype.sort((a, b) => a.ts - b.ts): stable, by insertion
RECURSIVE InsertByTs(_, _)
InsertByTs(sorted, e) ==
    IF sorted = << >> THEN <<e>>
    ELSE IF Head(sorted).ts <= e.ts
    THEN <<Head(sorted)>> \o InsertByTs(Tail(sorted), e)
    ELSE <<e>> \o sorted

RECURSIVE SortByTs(_)
SortByTs(m) ==
    IF m = << >> THEN << >>
    ELSE InsertByTs(SortByTs(SubSeq(m, 1, Len(m) - 1)), m[Len(m)])

rssSetCached(key, articles, providerTrace) ==
    LET m == MapSet(rssMemoryCache, Entry(key, now, articles, providerTrace))
    IN  IF Len(m) > RSS_MAX_CACHE_ENTRIES
        THEN MapDelete(m, SortByTs(m)[1].key)
        ELSE m

----------------------------------------------------------------------------
(* searchWithRSS of the RSS route, applied on its own to the items its      *)
(* feeds hold.  A feed item is its <title>, its <link> and the feed it is   *)
(* in; the text of story n decides what the classifier finds in it.  Its    *)
(* <pubDate> is "" when absent or unparseable, "old" when it parses (to a   *)
(* time before now).                                                        *)

\* Two feeds of the feed list that carry the same stories
RssFeeds == {"Philippine Star All", "Philippine Star News"}

RssItems ==
    [ title : { NoTitle, <<"story", 1, "Caps">>, <<"story", 1, "plain">>, <<"story", 2, "Caps">> },
      link  : { NoUrl,
                <<"rappler.com", "story", 1, "">>,
                <<"rappler.com", "story", 1, "utm_source=feed">>,
                <<"www.youtube.com", "story", 1, "">> },
      date  : { "", "old" },
      feed  : RssFeeds ]

\* isCorruptionRelated on the content of the stories of the model: story 1
\* scores 3 for dpwh, story 2 scores 1 for corrupt-politicians
isCorruptionRelated(title) ==
    IF title[2] = 1
    THEN [ isRelevant |-> TRUE, detectedCategory |-> "dpwh", score |-> 3 ]
    ELSE [ isRelevant |-> TRUE, detectedCategory |-> "corrupt-politicians", score |-> 1 ]

\* parseRSSFeed, the body of its loop: << >> for an item that is skipped
ParseRssItem(item, targetCategory) ==
    IF item.title = NoTitle \/ item.link = NoUrl THEN << >>
    ELSE LET detection == isCorruptionRelated(item.title)
         IN  IF ~detection.isRelevant THEN << >>
             ELSE IF /\ targetCategory # "" /\ targetCategory # "all"
                     /\ detection.detectedCategory # targetCategory
                     /\ detection.score < 2
             THEN << >>
             ELSE << [ url       |-> item.link,
                       title     |-> item.title,
                       publishedAt |-> IF item.date = "old" THEN "old" ELSE "now",
                       source    |-> item.feed,
                       category  |-> detection.detectedCategory,
                       fetchedAt |-> 0 ] >>

RECURSIVE ParseRssItems(_, _)
ParseRssItems(items, targetCategory) ==
    IF items = << >> THEN << >>
    ELSE ParseRssItem(Head(items), targetCategory) \o ParseRssItems(Tail(items), targetCategory)

\* item.title.toLowerCase().trim()
LowerTrim(t) == <<t[1], t[2], "plain">>

\* `${item.title.toLowerCase().trim()}_${item.source.name}`
RssDedupeKey(a) == <<LowerTrim(a.title), a.source>>

\* dedupeArticles of the RSS route: the loop
RECURSIVE RssDedupeScan(_, _, _, _)
RssDedupeScan(items, i, seen, unique) ==
    IF i > Len(items) THEN unique
    ELSE IF RssDedupeKey(items[i]) \in seen
    THEN RssDedupeScan(items, i + 1, seen, unique)
    ELSE RssDedupeScan(items, i + 1, seen \cup {RssDedupeKey(items[i])}, Append(unique, items[i]))

rssDedupeArticles(items) == RssDedupeScan(items, 1, {}, << >>)

\* new Date(publishedAt).getTime(), as a rank
DateRank(d) == IF d = "old" THEN 0 ELSE 1

\* Mutant of KeepsOrder: the date is not compared.
KeepsOrderScoreOnly(a, b) ==
    isCorruptionRelated(b.title).score - isCorruptionRelated(a.title).score <= 0

\* The comparator of the final sort is not positive: a stays before b.
\* Higher score first, then the newer date.
KeepsOrder(a, b) ==
    LET aScore == isCorruptionRelated(a.title).score
        bScore == isCorruptionRelated(b.title).score
    IN  IF aScore # bScore THEN bScore - aScore <= 0
        ELSE DateRank(b.publishedAt) - DateRank(a.publishedAt) <= 0

\* Array.prototype.sort with that comparator (a stable sort)
RECURSIVE InsertByScore(_, _)
InsertByScore(sorted, a) ==
    IF sorted = << >> THEN <<a>>
    ELSE IF KeepsOrder(Head(sorted), a)
    THEN <<Head(sorted)>> \o InsertByScore(Tail(sorted), a)
    ELSE <<a>> \o sorted

RECURSIVE SortByScore(_)
SortByScore(l) ==
    IF l = << >> THEN << >>
    ELSE InsertByScore(SortByScore(SubSeq(l, 1, Len(l) - 1)), l[Len(l)])

\* searchWithRSS after its batches: the category filter, dedupeArticles, the
\* sort and the slice (no query, no window)
RssFinish(allArticles, category, pageSize) ==
    LET inCategory  == IF category # "" /\ category # "all"
                       THEN SelectSeq(allArticles, LAMBDA a : a.category = category)
                       ELSE allArticles
        sorted      == SortByScore(rssDedupeArticles(inCategory))
    IN  SubSeq(sorted, 1, IF Len(sorted) < pageSize THEN Len(sorted) ELSE pageSize)

\* category !== 'all' ? category : undefined
TargetCategory(category) == IF category # "all" THEN category ELSE ""

\* searchWithRSS(category, null, null, null, pageSize) on feeds holding items
searchWithRSS(items, category, pageSize) ==
    RssFinish(ParseRssItems(items, TargetCategory(category)), category, pageSize)

CallSearchWithRSS ==
    /\ route = "lib"
    /\ pure.fn = "searchWithRSS"
    /\ pure.depth = 0
    /\ pure' = [ pure EXCEPT !.depth = 1,
                             !.ret = searchWithRSS(pure.arg.items, pure.arg.category,
                                                   pure.arg.pageSize) ]
    /\ UNCHANGED <<route, now, memoryCache, rssMemoryCache, req, lastDone,
                   memBuckets, redis, rlReq, rlLog>>


----------------------------------------------------------------------------
(* searchWithRSS fetching its feeds: the batches, and parseRSSFeed of each  *)
(* feed with its abort timer.  The process lives in pure.arg: pc is where   *)
(* searchWithRSS stands, feeds[i] where parseRSSFeed of feed i stands.      *)

\* [...PH_RSS_FEEDS, ...ADDITIONAL_OPINION_FEEDS]: three feeds of the list,
\* in the order of the list
allFeeds ==
    << [ source |-> "Rappler", priority |-> 1 ],
       [ source |-> "Daily Tribune", priority |-> 3 ],
       [ source |-> "Philippine Star Opinion", priority |-> 2 ] >>

\* allFeeds.sort((a, b) => a.priority - b.priority), a stable sort
RECURSIVE InsertByPriority(_, _)
InsertByPriority(sorted, f) ==
    IF sorted = << >> THEN <<f>>
    ELSE IF Head(sorted).priority - f.priority <= 0
    THEN <<Head(sorted)>> \o InsertByPriority(Tail(sorted), f)
    ELSE <<f>> \o sorted

RECURSIVE SortByPriority(_)
SortByPriority(l) ==
    IF l = << >> THEN << >>
    ELSE InsertByPriority(SortByPriority(SubSeq(l, 1, Len(l) - 1)), l[Len(l)])

\* Mutant of feedsToUse: the list is not sorted.
feedsToUseUnsorted == allFeeds

feedsToUse == SortByPriority(allFeeds)

\* The sources of feedsToUse
FeedList == [ i \in 1 .. Len(feedsToUse) |-> feedsToUse[i].source ]

FeedIds == 1 .. Len(FeedList)

\* The batch of feed i, and the number of batches
BatchOf(i) == (i - 1) \div maxConcurrent + 1
NumBatches == (Len(FeedList) + maxConcurrent - 1) \div maxConcurrent
FeedsOfBatch(b) == { i \in FeedIds : BatchOf(i) = b }

\* The <item> a feed holds when its body is a feed
FeedItems(i) ==
    << [ title |-> <<"story", 1, "Caps">>, link |-> <<"rappler.com", "story", 1, "">>,
         date |-> "", feed |-> FeedList[i] ] >>

\* parseRSSFeed of a feed: st is "waiting" (its batch has not begun), "fetch"
\* (await fetch), "text" (await response.text()) or "settled"; timer is the
\* setTimeout of controller.abort(): "none", "armed", "cleared" or "fired";
\* value is what the promise resolved to; how is the way it ended.
WaitingFeed == [ st |-> "waiting", timer |-> "none", value |-> << >>, how |-> "" ]

SettledFeed(f, value, how) == [ f EXCEPT !.st = "settled", !.value = value, !.how = how ]

\* batch.map(feed => parseRSSFeed(...)): each call runs up to `await fetch`
BeginBatch(feeds, b) ==
    [ i \in FeedIds |->
        IF BatchOf(i) = b THEN [ feeds[i] EXCEPT !.st = "fetch", !.timer = "armed" ]
        ELSE feeds[i] ]

\* Mutant of PushResults: only the first result of the batch is pushed.
PushFirstResult(allArticles, feeds, b) ==
    allArticles \o feeds[CHOOSE i \in FeedsOfBatch(b) : \A j \in FeedsOfBatch(b) : i <= j].value

\* batchResults.forEach: the values of the batch are pushed in feed order
RECURSIVE PushFrom(_, _, _, _)
PushFrom(allArticles, feeds, b, i) ==
    IF i > Len(FeedList) THEN allArticles
    ELSE PushFrom(IF BatchOf(i) = b THEN allArticles \o feeds[i].value ELSE allArticles,
                  feeds, b, i + 1)

PushResults(allArticles, feeds, b) == PushFrom(allArticles, feeds, b, 1)

FeedsProcess == pure.fn = "searchWithRSS:feeds"

FeedStep(i, f) ==
    /\ pure' = [ pure EXCEPT !.arg.feeds[i] = f ]
    /\ UNCHANGED <<route, now, memoryCache, rssMemoryCache, req, lastDone,
                   memBuckets, redis, rlReq, rlLog>>

\* searchWithRSS is called: the first batch begins
RssSearchStarts ==
    /\ FeedsProcess
    /\ pure.arg.pc = "idle"
    /\ pure' = [ pure EXCEPT !.arg.pc = "await", !.arg.batch = 1,
                             !.arg.feeds = BeginBatch(pure.arg.feeds, 1) ]
    /\ UNCHANGED <<route, now, memoryCache, rssMemoryCache, req, lastDone,
                   memBuckets, redis, rlReq, rlLog>>

\* await fetch resolves (the response headers are in): clearTimeout, then
\* !response.ok throws into the catch, which returns []
FeedFetchResponds(i, ok) ==
    /\ FeedsProcess
    /\ pure.arg.feeds[i].st = "fetch"
    /\ pure.arg.feeds[i].timer = "armed"
    /\ LET f == [ pure.arg.feeds[i] EXCEPT !.timer = "cleared" ]
       IN  FeedStep(i, IF ok THEN [ f EXCEPT !.st = "text" ]
                       ELSE SettledFeed(f, << >>, "status"))

\* await fetch rejects (network error): the catch returns []; the timer
\* stays armed
FeedFetchRejects(i) ==
    /\ FeedsProcess
    /\ pure.arg.feeds[i].st = "fetch"
    /\ pure.arg.feeds[i].timer = "armed"
    /\ FeedStep(i, SettledFeed(pure.arg.feeds[i], << >>, "network"))

\* The timer fires: controller.abort() rejects a fetch that is still awaited
FeedTimerFires(i) ==
    /\ FeedsProcess
    /\ pure.arg.feeds[i].timer = "armed"
    /\ LET f == [ pure.arg.feeds[i] EXCEPT !.timer = "fired" ]
       IN  FeedStep(i, IF f.st = "fetch" THEN SettledFeed(f, << >>, "timeout") ELSE f)

\* await response.text() resolves, with a feed or with a text that holds no
\* <item>; the loop of parseRSSFeed runs
FeedTextResolves(i, isFeed) ==
    /\ FeedsProcess
    /\ pure.arg.feeds[i].st = "text"
    /\ FeedStep(i, IF isFeed
                   THEN SettledFeed(pure.arg.feeds[i],
                                    ParseRssItems(FeedItems(i), TargetCategory(pure.arg.category)),
                                    "ok")
                   ELSE SettledFeed(pure.arg.feeds[i], << >>, "unparseable"))

\* await response.text() rejects (the connection breaks): the catch returns []
FeedTextRejects(i) ==
    /\ FeedsProcess
    /\ pure.arg.feeds[i].st = "text"
    /\ FeedStep(i, SettledFeed(pure.arg.feeds[i], << >>, "body"))

\* Promise.allSettled(batchPromises) resolves: the results are pushed; after
\* the last batch searchWithRSS filters, sorts and returns
BatchSettles ==
    /\ FeedsProcess
    /\ pure.arg.pc = "await"
    /\ \A i \in FeedsOfBatch(pure.arg.batch) : pure.arg.feeds[i].st = "settled"
    /\ LET allArticles == PushResults(pure.arg.allArticles, pure.arg.feeds, pure.arg.batch)
       IN  IF pure.arg.batch < NumBatches
           THEN pure' = [ pure EXCEPT !.arg.pc = "delay", !.arg.allArticles = allArticles ]
           ELSE pure' = [ pure EXCEPT !.arg.pc = "returned", !.arg.allArticles = allArticles,
                                      !.depth = 1,
                                      !.ret = RssFinish(allArticles, pure.arg.category,
                                                        pure.arg.pageSize) ]
    /\ UNCHANGED <<route, now, memoryCache, rssMemoryCache, req, lastDone,
                   memBuckets, redis, rlReq, rlLog>>

\* The delay between two batches ends: the next batch begins
DelayEnds ==
    /\ FeedsProcess
    /\ pure.arg.pc = "delay"
    /\ pure' = [ pure EXCEPT !.arg.pc = "await", !.arg.batch = pure.arg.batch + 1,
                             !.arg.feeds = BeginBatch(pure.arg.feeds, pure.arg.batch + 1) ]
    /\ UNCHANGED <<route, now, memoryCache, rssMemoryCache, req, lastDone,
                   memBuckets, redis, rlReq, rlLog>>
----------------------------------------------------------------------------
(* The provider adapters, applied on their own to an upstream answer.  An   *)
(* upstream item is its title, its URL, the source name the upstream gives  *)
(* and its date field: "" when absent, "old" when it parses (to a date      *)
(* before the request's from), "garbage" when it does not parse.           *)

CATEGORY_VALUES == { "flood-control", "dpwh", "corrupt-politicians", "nepo-babies" }

isCategory(val) == val \in CATEGORY_VALUES

normalizeCategoryKey(cat) == IF isCategory(cat) THEN cat ELSE "corrupt-politicians"

\* parseParams, the category: a value outside 'all' and the four is 'all'
ParseCategory(rawCategory) ==
    IF rawCategory \in {"all"} \cup CATEGORY_VALUES THEN rawCategory ELSE "all"

\* The hosts and the source names of the model that the allow rules accept
PH_DOMAINS == { "rappler.com" }
DOMAIN_TO_OUTLET == [ h \in {"rappler.com"} |-> "Rappler" ]
PH_OUTLETS == { "Rappler" }

guessSourceName(url, fallback) ==
    LET host == getHostname(url)
    IN  IF host \in DOMAIN DOMAIN_TO_OUTLET THEN DOMAIN_TO_OUTLET[host]
        ELSE IF fallback # "" THEN fallback
        ELSE IF host # "" THEN host
        ELSE "Unknown"

isLocalOutlet(sourceName, url) ==
    \/ getHostname(url) \in PH_DOMAINS
    \/ sourceName \in PH_OUTLETS

\* withinWindow(iso, from, null): a date that does not parse is let through,
\* "old" is before the from of the model, "now" is after it
withinWindow(iso, from) ==
    IF iso \notin {"old", "now"} THEN TRUE
    ELSE ~(from # "" /\ iso = "old")

UpstreamItems ==
    [ title  : { NoTitle, <<"story", 1, "Caps">> },
      url    : { <<"rappler.com", "story", 1, "">>, <<"www.youtube.com", "story", 1, "">> },
      source : { "Rappler", "YouTube" },
      date   : { "", "old", "garbage" } ]

\* What an adapter call ends in: the articles it returns, or an exception
Returned(articles) == [ threw |-> FALSE, articles |-> articles ]
Threw == [ threw |-> TRUE, articles |-> << >> ]

FirstN(l, n) == SubSeq(l, 1, IF Len(l) < n THEN Len(l) ELSE n)

\* The body of the .map of webSearchTavily and of webSearchSerper, on an item
\* whose date is absent or parses: r.published_date ?
\* new Date(r.published_date).toISOString() : new Date().toISOString()
WebArticle(r, category) ==
    [ url         |-> r.url,
      title       |-> r.title,
      publishedAt |-> IF r.date # "" THEN r.date ELSE "now",
      source      |-> guessSourceName(r.url, r.source),
      category    |-> normalizeCategoryKey(category),
      fetchedAt   |-> 0 ]

\* Date.prototype.toISOString throws a RangeError on an invalid date, and the
\* .map has no try around it
MapThrows(results) == \E i \in 1 .. Len(results) : results[i].date = "garbage"

WebFilter(results, category, from) ==
    SelectSeq([ i \in 1 .. Len(results) |-> WebArticle(results[i], category) ],
              LAMBDA a : isLocalOutlet(a.source, a.url) /\ withinWindow(a.publishedAt, from))

\* webSearchTavily: pass 1 on the answer with include_domains, pass 2 on the
\* widened answer when pass 1 leaves nothing
webSearchTavily(results, widened, category, from, pageSize) ==
    IF MapThrows(results) THEN Threw
    ELSE LET items == WebFilter(results, category, from)
         IN  IF items # << >> THEN Returned(FirstN(dedupeArticles(items), pageSize))
             ELSE IF MapThrows(widened) THEN Threw
             ELSE Returned(FirstN(dedupeArticles(WebFilter(widened, category, from)), pageSize))

webSearchSerper(news, category, from, pageSize) ==
    IF MapThrows(news) THEN Threw
    ELSE Returned(FirstN(dedupeArticles(WebFilter(news, category, from)), pageSize))

\* parseGeminiResponse, the body of its loop over the TITLE blocks: << >> for
\* a block that is skipped.  A date that does not parse falls to the catch,
\* which finds no yyyy-mm-dd in the block and takes the current time.
GeminiItem(block, category) ==
    IF block.title = NoTitle THEN << >>
    ELSE LET item == [ url         |-> block.url,
                       title       |-> block.title,
                       publishedAt |-> IF block.date = "old" THEN "old" ELSE "now",
                       source      |-> IF block.source # "" THEN block.source
                                       ELSE guessSourceName(block.url, ""),
                       category    |-> normalizeCategoryKey(category),
                       fetchedAt   |-> 0 ]
         IN  IF isLocalOutlet(item.source, item.url) THEN <<item>> ELSE << >>

RECURSIVE GeminiItems(_, _)
GeminiItems(blocks, category) ==
    IF blocks = << >> THEN << >>
    ELSE GeminiItem(Head(blocks), category) \o GeminiItems(Tail(blocks), category)

parseGeminiResponse(blocks, category) == dedupeArticles(GeminiItems(blocks, category))

searchWithGemini(blocks, category, from) ==
    Returned(FirstN(SelectSeq(parseGeminiResponse(blocks, category),
                              LAMBDA a : withinWindow(a.publishedAt, from)), 15))

\* fallbackNewsAPISearch on the answer it settles on: the deny-list and the
\* locality filter, the window filter on the raw publishedAt, the .map (which
\* keeps a publishedAt that is present as it is), dedupe and slice
NewsApiArticle(article, category) ==
    [ url         |-> article.url,
      title       |-> article.title,
      publishedAt |-> IF article.date # "" THEN article.date ELSE "now",
      source      |-> IF article.source # "" THEN article.source
                      ELSE guessSourceName(article.url, ""),
      category    |-> normalizeCategoryKey(category),
      fetchedAt   |-> 0 ]

fallbackNewsAPISearch(articles, category, from, pageSize) ==
    LET kept == SelectSeq(articles,
                    LAMBDA x : /\ getHostname(x.url) \notin EXCLUDE_DOMAINS
                               /\ isLocalOutlet(x.source, x.url)
                               /\ withinWindow(x.date, from))
        items == [ i \in 1 .. Len(kept) |-> NewsApiArticle(kept[i], category) ]
    IN  Returned(FirstN(dedupeArticles(items), pageSize))

\* The legacy news route: its parseGeminiResponse stores the request category
\* as it came (category as any), and its GET hands it the raw query parameter
LegacyGeminiItem(block, category) ==
    IF block.title = NoTitle THEN << >>
    ELSE LET item == [ url         |-> block.url,
                       title       |-> block.title,
                       publishedAt |-> IF block.date = "old" THEN "old" ELSE "now",
                       source      |-> IF block.source # "" THEN block.source
                                       ELSE guessSourceName(block.url, ""),
                       category    |-> category,
                       fetchedAt   |-> 0 ]
         IN  IF isLocalOutlet(item.source, item.url) THEN <<item>> ELSE << >>

RECURSIVE LegacyGeminiItems(_, _)
LegacyGeminiItems(blocks, category) ==
    IF blocks = << >> THEN << >>
    ELSE LegacyGeminiItem(Head(blocks), category) \o LegacyGeminiItems(Tail(blocks), category)

legacyParseGeminiResponse(blocks, category) ==
    dedupeArticles(LegacyGeminiItems(blocks, category))

\* The curated articles of the legacy route (two of them): no URL, dated now
mockNews ==
    << [ url |-> NoUrl, title |-> <<"mock", 1, "Caps">>, publishedAt |-> "now",
         source |-> "Philippine Daily Inquirer", category |-> "flood-control", fetchedAt |-> 0 ],
       [ url |-> NoUrl, title |-> <<"mock", 2, "Caps">>, publishedAt |-> "now",
         source |-> "Rappler", category |-> "dpwh", fetchedAt |-> 0 ] >>

legacySearchWithGemini(blocks, category, from) ==
    LET items == SelectSeq(legacyParseGeminiResponse(blocks, category),
                           LAMBDA a : withinWindow(a.publishedAt, from))
    IN  IF items = << >>
        THEN Returned(SelectSeq(mockNews,
                 LAMBDA a : (category = "all" \/ a.category = category)
                            /\ withinWindow(a.publishedAt, from)))
        ELSE Returned(FirstN(items, 15))

\* The adapters of the news route get the category parseParams made of the
\* query parameter; the legacy route passes the query parameter itself.
Adapters == { "searchWithGemini", "webSearchTavily", "webSearchSerper",
              "fallbackNewsAPISearch", "legacySearchWithGemini" }

RawCategories == { "all", "dpwh", "xyz" }

\* What a widened Tavily search answers
WidenedAnswers ==
    { << >>,
      << [ title |-> NoTitle, url |-> <<"rappler.com", "story", 2, "">>,
           source |-> "", date |-> "" ] >>,
      << [ title |-> <<"story", 2, "Caps">>, url |-> <<"rappler.com", "story", 2, "">>,
           source |-> "", date |-> "garbage" ] >> }

AdapterResult(fn, a) ==
    CASE fn = "searchWithGemini" ->
             searchWithGemini(a.items, ParseCategory(a.category), a.from)
      [] fn = "webSearchTavily" ->
             webSearchTavily(a.items, a.widened, ParseCategory(a.category), a.from, a.pageSize)
      [] fn = "webSearchSerper" ->
             webSearchSerper(a.items, ParseCategory(a.category), a.from, a.pageSize)
      [] fn = "fallbackNewsAPISearch" ->
             fallbackNewsAPISearch(a.items, ParseCategory(a.category), a.from, a.pageSize)
      [] fn = "legacySearchWithGemini" ->
             legacySearchWithGemini(a.items, a.category, a.from)

\* An adapter is called on an upstream answer
CallAdapter ==
    /\ route = "lib"
    /\ pure.fn \in Adapters
    /\ pure.depth = 0
    /\ pure' = [ pure EXCEPT !.depth = 1, !.ret = AdapterResult(pure.fn, pure.arg) ]
    /\ UNCHANGED <<route, now, memoryCache, rssMemoryCache, req, lastDone,
                   memBuckets, redis, rlReq, rlLog>>

----------------------------------------------------------------------------
(* withinWindow of the two routes, applied on its own.  A date string is    *)
(* NullDate when null, undefined or empty, BadDate when new Date() of it is *)
(* invalid, and otherwise the time it parses to.                            *)

NullDate == 0 - 2
BadDate == 0 - 1

DateStrings == { NullDate, BadDate } \cup (0 .. MaxDate)

\* isNaN(new Date(s).getTime())
IsNaNDate(s) == s < 0

\* Mutants of withinWindow: the comparison with from is turned around; a
\* timestamp that does not parse is refused.
withinWindowTurned(iso, from, to) ==
    IF from = NullDate /\ to = NullDate THEN TRUE
    ELSE IF IsNaNDate(iso) THEN TRUE
    ELSE IF from # NullDate /\ ~IsNaNDate(from) /\ iso > from THEN FALSE
    ELSE IF to # NullDate /\ ~IsNaNDate(to) /\ iso > to THEN FALSE
    ELSE TRUE
withinWindowClosed(iso, from, to) ==
    IF from = NullDate /\ to = NullDate THEN TRUE
    ELSE IF IsNaNDate(iso) THEN FALSE
    ELSE IF from # NullDate /\ ~IsNaNDate(from) /\ iso < from THEN FALSE
    ELSE IF to # NullDate /\ ~IsNaNDate(to) /\ iso > to THEN FALSE
    ELSE TRUE

\* withinWindow of the news route, on date strings
withinWindowNews(iso, from, to) ==
    IF from = NullDate /\ to = NullDate THEN TRUE
    ELSE IF IsNaNDate(iso) THEN TRUE
    ELSE IF from # NullDate /\ ~IsNaNDate(from) /\ iso < from THEN FALSE
    ELSE IF to # NullDate /\ ~IsNaNDate(to) /\ iso > to THEN FALSE
    ELSE TRUE

\* withinWindow of the RSS route
withinWindowRss(iso, from, to) ==
    IF from = NullDate /\ to = NullDate THEN TRUE
    ELSE IF IsNaNDate(iso) THEN TRUE
    ELSE IF from # NullDate /\ (~IsNaNDate(from) /\ iso < from) THEN FALSE
    ELSE IF to # NullDate /\ (~IsNaNDate(to) /\ iso > to) THEN FALSE
    ELSE TRUE

WindowResult(fn, iso, from, to) ==
    IF fn = "withinWindow" THEN withinWindowNews(iso, from, to)
    ELSE withinWindowRss(iso, from, to)

WindowFns == { "withinWindow", "rss:withinWindow" }

\* Window [from2, to2] lies inside window [from, to], a null bound being no
\* bound
Narrower(from2, to2, from, to) ==
    /\ from # NullDate => (from2 # NullDate /\ from2 >= from)
    /\ to # NullDate => (to2 # NullDate /\ to2 <= to)

\* withinWindow(iso, from, to) is called
CallWithinWindow ==
    /\ route = "lib"
    /\ pure.fn \in WindowFns
    /\ pure.depth = 0
    /\ pure' = [ pure EXCEPT !.depth = 1,
                             !.ret = << WindowResult(pure.fn, pure.arg.iso,
                                                     pure.arg.from, pure.arg.to) >> ]
    /\ UNCHANGED <<route, now, memoryCache, rssMemoryCache, req, lastDone,
                   memBuckets, redis, rlReq, rlLog>>

\* It is called again on the same timestamp with a window inside the first
CallWithinNarrower(from2, to2) ==
    /\ route = "lib"
    /\ pure.fn \in WindowFns
    /\ pure.depth = 1
    /\ ~IsNaNDate(from2) \/ from2 = NullDate
    /\ ~IsNaNDate(to2) \/ to2 = NullDate
    /\ ~IsNaNDate(pure.arg.from) \/ pure.arg.from = NullDate
    /\ ~IsNaNDate(pure.arg.to) \/ pure.arg.to = NullDate
    /\ Narrower(from2, to2, pure.arg.from, pure.arg.to)
    /\ pure' = [ pure EXCEPT !.depth = 2,
                             !.arg = [ iso |-> pure.arg.iso, from |-> from2, to |-> to2,
                                       wide |-> <<pure.arg.from, pure.arg.to>> ],
                             !.ret = Append(pure.ret,
                                            WindowResult(pure.fn, pure.arg.iso, from2, to2)) ]
    /\ UNCHANGED <<route, now, memoryCache, rssMemoryCache, req, lastDone,
                   memBuckets, redis, rlReq, rlLog>>

----------------------------------------------------------------------------
(* parseParams of the two routes, applied on its own to a query string.  A  *)
(* parameter is NoParam when the query string does not have it (sp.get      *)
(* returns null), else the text it has.  A JavaScript number is NaN,        *)
(* Infinity or a value counted in tenths.                                   *)

NoParam == "<null>"

\* A date parameter that is present but empty (?from=)
EmptyDate == 0 - 3

RawDates == { NullDate, EmptyDate, BadDate, 1 }

RawCategoryParams == { NoParam, "", "all", "dpwh", "xyz" }

Num(tenths) == [ k |-> "num", v |-> tenths ]
NaN == [ k |-> "nan", v |-> 0 ]
Infinity == [ k |-> "inf", v |-> 0 ]

\* Number(text) and parseInt(text) on the texts of the model
NumberOf ==
    [ t \in { "abc", "0", "-5", "3", "2.5", "0.5", "100", "Infinity", "1e3", "7px", "1", "20" } |->
        CASE t = "abc" -> NaN
          [] t = "0" -> Num(0)
          [] t = "-5" -> Num(0 - 50)
          [] t = "3" -> Num(30)
          [] t = "2.5" -> Num(25)
          [] t = "0.5" -> Num(5)
          [] t = "100" -> Num(1000)
          [] t = "Infinity" -> Infinity
          [] t = "1e3" -> Num(10000)
          [] t = "7px" -> NaN
          [] t = "1" -> Num(10)
          [] t = "20" -> Num(200) ]

ParseIntOf ==
    [ t \in DOMAIN NumberOf |->
        CASE t = "abc" -> NaN
          [] t = "0" -> Num(0)
          [] t = "-5" -> Num(0 - 50)
          [] t = "3" -> Num(30)
          [] t = "2.5" -> Num(20)
          [] t = "0.5" -> Num(0)
          [] t = "100" -> Num(1000)
          [] t = "Infinity" -> NaN
          [] t = "1e3" -> Num(10)
          [] t = "7px" -> Num(70)
          [] t = "1" -> Num(10)
          [] t = "20" -> Num(200) ]

RawNumbers == { NoParam, "" } \cup (DOMAIN NumberOf \ {"1", "20"})

\* sp.get(name) || dflt
OrDefault(raw, dflt) == IF raw = NoParam \/ raw = "" THEN dflt ELSE raw

\* n || dflt on numbers: NaN and 0 are falsy
NumOr(n, dflt) == IF n.k = "nan" \/ (n.k = "num" /\ n.v = 0) THEN dflt ELSE n

\* Math.max(a, b) and Math.min(a, b), neither NaN
MathMax(a, b) ==
    IF a.k = "inf" \/ b.k = "inf" THEN Infinity
    ELSE IF a.v >= b.v THEN a ELSE b

MathMin(a, b) ==
    IF a.k = "inf" THEN b
    ELSE IF b.k = "inf" THEN a
    ELSE IF a.v <= b.v THEN a ELSE b

\* parseParams of the news route
parseParamsNews(q) ==
    LET rawCategory == OrDefault(q.category, "all")
        isIso(v)    == v \in {NullDate, EmptyDate} \/ ~IsNaNDate(v)
        page0       == NumberOf[OrDefault(q.page, "1")]
        pageSize0   == NumberOf[OrDefault(q.pageSize, "20")]
        pageSize1   == IF pageSize0.k # "num" THEN Num(200) ELSE pageSize0
    IN  [ category |-> ParseCategory(rawCategory),
          from     |-> IF isIso(q.from) THEN q.from ELSE NullDate,
          to       |-> IF isIso(q.to) THEN q.to ELSE NullDate,
          page     |-> IF page0.k # "num" \/ page0.v < 10 THEN Num(10) ELSE page0,
          pageSize |-> MathMin(Num(500), MathMax(Num(10), pageSize1)) ]

\* parseParams of the RSS route
parseParamsRss(q) ==
    LET rawCategory == OrDefault(q.category, "all")
        isValidISODate(dateStr) == dateStr \notin {NullDate, EmptyDate} /\ ~IsNaNDate(dateStr)
    IN  [ category |-> IF rawCategory \in {"all"} \cup CATEGORY_VALUES THEN rawCategory ELSE "all",
          from     |-> IF isValidISODate(q.from) THEN q.from ELSE NullDate,
          to       |-> IF isValidISODate(q.to) THEN q.to ELSE NullDate,
          page     |-> MathMax(Num(10), NumOr(ParseIntOf[OrDefault(q.page, "1")], Num(10))),
          pageSize |-> MathMin(Num(500),
                               MathMax(Num(10),
                                       NumOr(ParseIntOf[OrDefault(q.pageSize, "20")], Num(200)))) ]

ParamFns == { "parseParams", "rss:parseParams" }

\* parseParams(req) is called
CallParseParams ==
    /\ route = "lib"
    /\ pure.fn \in ParamFns
    /\ pure.depth = 0
    /\ pure' = [ pure EXCEPT !.depth = 1,
                             !.ret = IF pure.fn = "parseParams" THEN parseParamsNews(pure.arg)
                                     ELSE parseParamsRss(pure.arg) ]
    /\ UNCHANGED <<route, now, memoryCache, rssMemoryCache, req, lastDone,
                   memBuckets, redis, rlReq, rlLog>>

----------------------------------------------------------------------------
(* isCorruptionRelated of the RSS route, applied on its own.  A text is the *)
(* set of the phrases written in it; SubstringsOf gives, of the strings the *)
(* classifier looks for, the ones each phrase contains.                     *)

SubstringsOf ==
    [ a \in { "canceled nepo babies", "cancel", "nepo", "ghost project", "contractor",
              "dike", "corruption", "corrupt", "kickback", "claudine co", "dpwh" } |->
        CASE a = "canceled nepo babies" ->
                 { "canceled nepo babies", "nepo babies", "canceled", "cancel", "nepo", "babies" }
          [] a = "contractor" -> { "contractor", "co" }
          [] a = "corruption" -> { "corruption", "corrupt", "co" }
          [] a = "corrupt" -> { "corrupt", "co" }
          [] a = "claudine co" -> { "claudine co", "claudine", "co" }
          [] OTHER -> { a } ]

Phrases == DOMAIN SubstringsOf

\* contentLower.includes(s)
Includes(content, s) == \E a \in content : s \in SubstringsOf[a]

\* The keywords of UPDATED_CORRUPTION_KEYWORDS that the phrases of the model
\* can match, in the order of the table.  multi: two words or more and longer
\* than 8; name: in the list of specific names; key: in the list of key
\* terms; parts: keywordLower.split(' ').
Keyword(category, keyword, multi, name, key, parts) ==
    [ category |-> category, keyword |-> keyword, multi |-> multi, name |-> name,
      key |-> key, parts |-> parts ]

UPDATED_CORRUPTION_KEYWORDS ==
    << Keyword("corrupt-politicians", "corrupt", FALSE, FALSE, FALSE, {"corrupt"}),
       Keyword("corrupt-politicians", "corruption", FALSE, FALSE, TRUE, {"corruption"}),
       Keyword("corrupt-politicians", "kickback", FALSE, FALSE, TRUE, {"kickback"}),
       Keyword("dpwh", "dpwh", FALSE, FALSE, TRUE, {"dpwh"}),
       Keyword("dpwh", "ghost project", TRUE, FALSE, TRUE, {"ghost", "project"}),
       Keyword("dpwh", "kickback", FALSE, FALSE, TRUE, {"kickback"}),
       Keyword("dpwh", "contractor", FALSE, FALSE, FALSE, {"contractor"}),
       Keyword("flood-control", "dike", FALSE, FALSE, FALSE, {"dike"}),
       Keyword("flood-control", "ghost project", TRUE, FALSE, TRUE, {"ghost", "project"}),
       Keyword("nepo-babies", "nepo babies", TRUE, FALSE, FALSE, {"nepo", "babies"}),
       Keyword("nepo-babies", "claudine co", TRUE, TRUE, FALSE, {"claudine", "co"}),
       Keyword("nepo-babies", "canceled nepo babies", TRUE, FALSE, FALSE,
               {"canceled", "nepo", "babies"}),
       Keyword("nepo-babies", "cancel nepo babies", TRUE, FALSE, FALSE,
               {"cancel", "nepo", "babies"}) >>

\* Mutant of CancelNepoBonus: no bonus.
NoCancelNepoBonus(content) == 0

\* The special handling of a text with 'cancel' and 'nepo'
CancelNepoBonus(content) ==
    IF Includes(content, "cancel") /\ Includes(content, "nepo") THEN 5 ELSE 0

\* What one keyword adds to the score of its category
KeywordScore(content, k) ==
    (IF Includes(content, k.keyword)
     THEN 1 + (IF k.multi THEN 1 ELSE 0) + (IF k.name THEN 3 ELSE 0) + (IF k.key THEN 2 ELSE 0)
     ELSE 0)
    + (IF /\ k.category = "nepo-babies"
          /\ Cardinality(k.parts) >= 2
          /\ \A part \in k.parts : Includes(content, part)
       THEN 2 ELSE 0)

RECURSIVE SumKeywords(_, _, _)
SumKeywords(content, category, i) ==
    IF i > Len(UPDATED_CORRUPTION_KEYWORDS) THEN 0
    ELSE (IF UPDATED_CORRUPTION_KEYWORDS[i].category = category
          THEN KeywordScore(content, UPDATED_CORRUPTION_KEYWORDS[i]) ELSE 0)
         + SumKeywords(content, category, i + 1)

\* The keys of categoryScores, in insertion order
ScoreKeys == << "corrupt-politicians", "dpwh", "flood-control", "nepo-babies" >>

categoryScores(content) ==
    [ c \in { ScoreKeys[i] : i \in 1 .. Len(ScoreKeys) } |->
        (IF c = "nepo-babies" THEN CancelNepoBonus(content) ELSE 0)
        + SumKeywords(content, c, 1) ]

\* isCorruptionRelated(content): Math.max of the scores, the first key that
\* has it, and the threshold
isCorruptionRelatedText(content) ==
    LET scores   == categoryScores(content)
        maxScore == CHOOSE m \in { scores[c] : c \in DOMAIN scores } :
                        \A c \in DOMAIN scores : scores[c] <= m
        first    == CHOOSE i \in 1 .. Len(ScoreKeys) :
                        /\ scores[ScoreKeys[i]] = maxScore
                        /\ \A j \in 1 .. i - 1 : scores[ScoreKeys[j]] # maxScore
    IN  [ isRelevant |-> maxScore >= 1,
          detectedCategory |-> ScoreKeys[first],
          score |-> maxScore ]

\* isCorruptionRelated(content) is called
CallIsCorruptionRelated ==
    /\ route = "lib"
    /\ pure.fn = "isCorruptionRelated"
    /\ pure.depth = 0
    /\ pure' = [ pure EXCEPT !.depth = 1, !.ret = isCorruptionRelatedText(pure.arg) ]
    /\ UNCHANGED <<route, now, memoryCache, rssMemoryCache, req, lastDone,
                   memBuckets, redis, rlReq, rlLog>>


----------------------------------------------------------------------------
(* The upstream calls of one adapter call of the news route.  Every call    *)
(* goes through fetchJsonWithTimeout.  The process lives in pure.arg: pc is *)
(* the pass that is awaited, calls the passes made with how each ended,     *)
(* data the number of articles the adapter holds.                           *)

\* What an upstream request can end in: a 2xx answer holding n articles (for
\* Tavily, n that its filters keep), a non-2xx answer, the abort of the timer,
\* or a network error
UpstreamAnswers ==
    [ kind : {"ok"}, n : 0 .. MaxUpstream ] \cup [ kind : {"non2xx", "timeout", "error"}, n : {0} ]

\* fetchJsonWithTimeout: throws unless the answer is 2xx
FetchThrows(answer) == answer.kind # "ok"

NewsAdapters == { "searchWithGemini", "webSearchTavily", "webSearchSerper",
                  "fallbackNewsAPISearch" }

\* Math.ceil(pageSize / 2)
HalfPage(pageSize) == (pageSize + 1) \div 2

\* The adapter goes on to await another pass
NextPass(a, pass, data) == [ a EXCEPT !.pc = pass, !.data = data ]

\* The adapter returns its articles, or throws
AdapterEnds(a, threw, data) ==
    [ a EXCEPT !.pc = IF threw THEN "threw" ELSE "returned", !.data = IF threw THEN 0 ELSE data ]

\* fallbackNewsAPISearch after the 'tl' pass, caught or not
AfterTagalog(a, data) ==
    IF data = 0 THEN NextPass(a, "withoutDomains", data) ELSE AdapterEnds(a, FALSE, data)

\* The adapter after the pass it awaits has ended in answer
AfterPass(a, answer) ==
    CASE a.adapter \in {"searchWithGemini", "webSearchSerper"} ->
           AdapterEnds(a, FetchThrows(answer), answer.n)
      [] a.adapter = "webSearchTavily" ->
           IF FetchThrows(answer) THEN AdapterEnds(a, TRUE, 0)
           ELSE IF a.pc = "base" /\ answer.n = 0 THEN NextPass(a, "widened", 0)
           ELSE AdapterEnds(a, FALSE, answer.n)
      [] a.adapter = "fallbackNewsAPISearch" ->
           CASE a.pc = "withDomains" ->
                  IF FetchThrows(answer) THEN AdapterEnds(a, TRUE, 0)
                  ELSE IF answer.n = 0 \/ answer.n < HalfPage(a.pageSize)
                  THEN NextPass(a, "withDomainsTL", answer.n)
                  ELSE AdapterEnds(a, FALSE, answer.n)
             [] a.pc = "withDomainsTL" ->
                  \* try { ... } catch { /* ignore */ }
                  AfterTagalog(a, IF FetchThrows(answer) THEN a.data ELSE a.data + answer.n)
             [] a.pc = "withoutDomains" ->
                  AdapterEnds(a, FetchThrows(answer), answer.n)

FirstPass(adapter) ==
    CASE adapter = "webSearchTavily" -> "base"
      [] adapter = "fallbackNewsAPISearch" -> "withDomains"
      [] OTHER -> "only"

\* The adapter is called and awaits its first upstream request
AdapterBegins ==
    /\ route = "lib"
    /\ pure.fn = "upstreamCalls"
    /\ pure.arg.pc = "idle"
    /\ pure' = [ pure EXCEPT !.arg.pc = FirstPass(pure.arg.adapter) ]
    /\ UNCHANGED <<route, now, memoryCache, rssMemoryCache, req, lastDone,
                   memBuckets, redis, rlReq, rlLog>>

\* The upstream request that is awaited ends
UpstreamEnds(answer) ==
    /\ route = "lib"
    /\ pure.fn = "upstreamCalls"
    /\ pure.arg.pc \notin {"idle", "returned", "threw"}
    /\ LET a == [ pure.arg EXCEPT
                    !.calls = Append(@, [ pass |-> pure.arg.pc, answer |-> answer ]) ]
           after == AfterPass(a, answer)
       IN  pure' = [ pure EXCEPT !.arg = after,
                                 !.depth = IF after.pc \in {"returned", "threw"} THEN 1 ELSE 0 ]
    /\ UNCHANGED <<route, now, memoryCache, rssMemoryCache, req, lastDone,
                   memBuckets, redis, rlReq, rlLog>>

----------------------------------------------------------------------------
(* The publishedAt of one upstream item through each adapter of the news    *)
(* route: where the date is replaced and where withinWindow is asked.       *)

\* What becomes of the item: dropped by the window filter, kept with the
\* publishedAt the response will carry, or the adapter throws
DateKept(publishedAt) == [ threw |-> FALSE, kept |-> TRUE, publishedAt |-> publishedAt ]
DateDropped == [ threw |-> FALSE, kept |-> FALSE, publishedAt |-> NullDate ]
DateThrew == [ threw |-> TRUE, kept |-> FALSE, publishedAt |-> NullDate ]

\* The adapters that replace the date first and filter after
FilterAfter(publishedAt, from, to) ==
    IF withinWindowNews(publishedAt, from, to) THEN DateKept(publishedAt) ELSE DateDropped

\* raw: the date of the upstream item; nowT: new Date() when the adapter runs
PublishedAtOf(fn, raw, from, to, nowT) ==
    CASE fn = "searchWithGemini" ->
           \* parseGeminiResponse: a date that does not parse becomes now
           FilterAfter(IF IsNaNDate(raw) THEN nowT ELSE raw, from, to)
      [] fn \in {"webSearchTavily", "webSearchSerper"} ->
           \* r.published_date ? new Date(r.published_date).toISOString() : now
           IF raw = BadDate THEN DateThrew
           ELSE FilterAfter(IF raw = NullDate THEN nowT ELSE raw, from, to)
      [] fn = "fallbackNewsAPISearch" ->
           \* .filter(withinWindow(article.publishedAt)) comes before
           \* .map(publishedAt: article.publishedAt || now)
           IF withinWindowNews(raw, from, to)
           THEN DateKept(IF raw = NullDate THEN nowT ELSE raw)
           ELSE DateDropped

\* The adapter runs on the item
CallPublishedAt ==
    /\ route = "lib"
    /\ pure.fn = "publishedAt"
    /\ pure.depth = 0
    /\ pure' = [ pure EXCEPT !.depth = 1,
                             !.ret = PublishedAtOf(pure.arg.adapter, pure.arg.raw, pure.arg.from,
                                                   pure.arg.to, pure.arg.nowT) ]
    /\ UNCHANGED <<route, now, memoryCache, rssMemoryCache, req, lastDone,
                   memBuckets, redis, rlReq, rlLog>>

----------------------------------------------------------------------------
(* The feed page: the filters, the debounce timer of the filter effect,    *)
(* the requests of loadNews in flight, and what the page shows.            *)

\* A filter that is not sent: category 'all', an empty search text, no day
Undefined == "undefined"

\* The opts the filter effect hands to loadNews
EffectOpts(selectedCategory, searchQuery, selectedDay) ==
    [ category |-> IF selectedCategory = "all" THEN Undefined ELSE selectedCategory,
      query |-> IF searchQuery = "" THEN Undefined ELSE searchQuery,
      day |-> IF selectedDay = "null" THEN Undefined ELSE selectedDay ]

\* The opts of the retry button: loadNews({ retryAttempt: 1 })
RetryOpts(selectedCategory, searchQuery, selectedDay) ==
    [ category |-> Undefined, query |-> Undefined, day |-> Undefined ]

\* fetchNews: the parameters of the request made for the opts
ParamsOf(opts) ==
    [ category |-> IF opts.category # Undefined /\ opts.category # "all"
                   THEN opts.category ELSE "all",
      q |-> IF opts.query # Undefined THEN opts.query ELSE "",
      day |-> IF opts.day # Undefined THEN opts.day ELSE "null" ]

\* The filters the user can choose
PageCategories == {"all", "dpwh"}
PageQueries == {"", "flood"}
PageDays == {"null", "Mon Nov 02 2026"}

\* The page after mount: loading, no articles, the effect has set its timer
MountedPage ==
    [ selectedCategory |-> "all", searchQuery |-> "", selectedDay |-> "null",
      timer |-> << EffectOpts("all", "", "null") >>, inFlight |-> << >>,
      articles |-> << >>, loading |-> TRUE, error |-> << >>, retrying |-> FALSE ]

PageStep(page) ==
    /\ route = "lib"
    /\ pure.fn = "feedPage"
    /\ pure' = [ pure EXCEPT !.arg = page ]
    /\ UNCHANGED <<route, now, memoryCache, rssMemoryCache, req, lastDone,
                   memBuckets, redis, rlReq, rlLog>>

\* The user changes filters; the effect runs again: its cleanup clears the
\* timer, a new timer is set
SelectFilters(category, query, day) ==
    /\ pure.fn = "feedPage"
    /\ <<category, query, day>> #
           <<pure.arg.selectedCategory, pure.arg.searchQuery, pure.arg.selectedDay>>
    /\ PageStep([ pure.arg EXCEPT !.selectedCategory = category,
                                  !.searchQuery = query,
                                  !.selectedDay = day,
                                  !.timer = << EffectOpts(category, query, day) >> ])

\* loadNews up to its await: setError(null), setLoading(true), the request
\* leaves
LoadNewsBegins(page, opts) ==
    [ page EXCEPT !.error = << >>, !.loading = TRUE,
                  !.inFlight = Append(page.inFlight, opts) ]

\* The timer of the effect fires
PageTimerFires ==
    /\ pure.fn = "feedPage"
    /\ pure.arg.timer # << >>
    /\ Len(pure.arg.inFlight) < MaxInFlight
    /\ PageStep(LoadNewsBegins([ pure.arg EXCEPT !.timer = << >> ], pure.arg.timer[1]))

\* The retry button of ErrorDisplay, shown when the page is not loading and
\* the error is retryable, disabled while retrying
RetryClicked ==
    /\ pure.fn = "feedPage"
    /\ ~pure.arg.loading
    /\ pure.arg.error # << >>
    /\ pure.arg.error[1].isRetryable
    /\ ~pure.arg.retrying
    /\ Len(pure.arg.inFlight) < MaxInFlight
    /\ PageStep(LoadNewsBegins([ pure.arg EXCEPT !.retrying = TRUE ],
                               RetryOpts(pure.arg.selectedCategory, pure.arg.searchQuery,
                                         pure.arg.selectedDay)))

RemoveAt(s, i) == SubSeq(s, 1, i - 1) \o SubSeq(s, i + 1, Len(s))

\* A request of loadNews is answered 2xx: setArticles, and the finally block
NewsResponds(i) ==
    /\ pure.fn = "feedPage"
    /\ i \in 1 .. Len(pure.arg.inFlight)
    /\ PageStep([ pure.arg EXCEPT !.articles = << ParamsOf(pure.arg.inFlight[i]) >>,
                                  !.loading = FALSE,
                                  !.retrying = FALSE,
                                  !.inFlight = RemoveAt(pure.arg.inFlight, i) ])

\* A request of loadNews fails: setError, and the finally block
NewsFails(i, isRetryable) ==
    /\ pure.fn = "feedPage"
    /\ i \in 1 .. Len(pure.arg.inFlight)
    /\ PageStep([ pure.arg EXCEPT !.error = << [ isRetryable |-> isRetryable ] >>,
                                  !.loading = FALSE,
                                  !.retrying = FALSE,
                                  !.inFlight = RemoveAt(pure.arg.inFlight, i) ])
----------------------------------------------------------------------------
(* What an upstream call can end in: an error (non-2xx, timeout, missing    *)
(* key: the adapter throws) or an answer the adapter turns into n articles. *)

Outcomes == [ kind : {"throw"}, n : {0} ] \cup [ kind : {"ok"}, n : 0 .. MaxItems ]

\* process.env as searchWithWeb reads it
WebEnvs ==
    [ hasTavily : BOOLEAN,                     \* TAVILY_API_KEY set
      hasSerper : BOOLEAN,                     \* SERPER_API_KEY set
      preferred : {"", "tavily", "serper"} ]   \* WEB_SEARCH_PROVIDER

\* An element of providerTrace: `${tag}:${n}`, 'cache:hit' or 'rss:failed'
TraceItem(tag, n) == [ tag |-> tag, n |-> n ]
CacheHit == TraceItem("cache:hit", 0)
RssFailed == TraceItem("rss:failed", 0)

IdleReq ==
    [ pc         |-> "idle",
      params     |-> << >>,
      key        |-> << >>,
      cached     |-> << >>,     \* const cached = getCached(key)
      articles   |-> << >>,     \* let articles
      trace      |-> << >>,     \* const trace
      useGeminiSearch |-> FALSE,  \* USE_GEMINI_SEARCH === 'true'
      tryOrder   |-> << >>,     \* searchWithWeb: the providers still to try
      collected  |-> << >>,     \* searchWithWeb: collected
      firstError |-> FALSE,     \* searchWithWeb: firstError !== null
      called     |-> << >>,     \* history: the stage and provider functions called
      got        |-> << >>,     \* history: the first stage that returned articles, and what
      startedAt  |-> 0,         \* history: Date.now() when the handler started
      prev       |-> << >>,     \* history: the response sent last before the handler started
      evicted    |-> << >>,     \* history: what the handler's cache write evicted
      resp       |-> << >> ]    \* the response sent, << >> before

\* searchWithWeb: tryOrder
TryOrder(e) ==
    LET byName ==
            IF e.preferred = "tavily" /\ e.hasTavily THEN <<"tavily">>
            ELSE IF e.preferred = "serper" /\ e.hasSerper THEN <<"serper">>
            ELSE << >>
        pushed == IF e.preferred # "" THEN byName ELSE << >>
    IN  IF Len(pushed) = 0
        THEN (IF e.hasTavily THEN <<"tavily">> ELSE << >>)
             \o (IF e.hasSerper THEN <<"serper">> ELSE << >>)
        ELSE pushed

\* GET, step 3: fallbackNewsAPISearch is called and awaited
EnterNewsApi(s) ==
    [ s EXCEPT !.pc = "newsapi", !.called = Append(@, "newsapi") ]

\* Mutant of WebLoop: the exception searchWithWeb throws when no provider is
\* left is not caught
WebLoopEscapes(s) ==
    IF s.tryOrder # << >>
    THEN [ s EXCEPT !.pc = Head(s.tryOrder),
                    !.tryOrder = Tail(@),
                    !.called = Append(@, Head(s.tryOrder)) ]
    ELSE [ s EXCEPT !.pc = "escaped" ]

\* searchWithWeb, the for loop: the next provider is called and awaited; when
\* none is left the function throws, GET catches and goes on to NewsAPI
WebLoop(s) ==
    IF s.tryOrder # << >>
    THEN [ s EXCEPT !.pc = Head(s.tryOrder),
                    !.tryOrder = Tail(@),
                    !.called = Append(@, Head(s.tryOrder)) ]
    ELSE EnterNewsApi(s)

\* GET, step 2: searchWithWeb is called (articles is empty here); e is the
\* environment it reads
EnterWeb(s, e) ==
    WebLoop([ s EXCEPT !.tryOrder = TryOrder(e),
                       !.collected = << >>,
                       !.firstError = FALSE,
                       !.called = Append(@, "web") ])

\* Mutants of AfterGemini: the web stage runs whatever Gemini returned; the
\* web stage is skipped.
AfterGeminiAlways(s, e) == EnterWeb(s, e)
AfterGeminiSkipWeb(s, e) ==
    IF s.articles = << >> THEN EnterNewsApi(s) ELSE [ s EXCEPT !.pc = "finish" ]

\* GET after step 1: steps 2 and 3 run only while articles is empty
AfterGemini(s, e) ==
    IF s.articles = << >> THEN EnterWeb(s, e) ELSE [ s EXCEPT !.pc = "finish" ]

----------------------------------------------------------------------------
(* GET of the news route *)

\* The entry a capacity eviction removed from map m (m after Map.set), with
\* the smallest ts of m; << >> when nothing was removed.
Eviction(m, after) ==
    IF Len(after) >= Len(m) THEN << >>
    ELSE LET gone == CHOOSE i \in 1 .. Len(m) : EntryIndex(after, m[i].key) = 0
         IN  << [ key   |-> m[gone].key,
                  count |-> Len(m) - Len(after),
                  ts    |-> m[gone].ts,
                  minTs |-> CHOOSE t \in { m[i].ts : i \in 1 .. Len(m) } :
                                \A i \in 1 .. Len(m) : t <= m[i].ts ] >>

\* Mutants of UseCache: the fallback is never taken; it is taken whenever an
\* entry was found.
UseCacheNever(s) == FALSE
UseCacheAlways(s) == s.cached # << >>

\* GET, step 4: if (!articles.length && cached)
UseCache(s) == s.articles = << >> /\ s.cached # << >>

\* GET, steps 4 to the response: the sticky cache fallback, the write
\* through and the JSON answer.  No await: one step.
Finish(r, s) ==
    LET useCache == UseCache(s)
        articles == IF useCache THEN s.cached[1].articles ELSE s.articles
        trace    == IF useCache THEN Append(s.trace, CacheHit) ELSE s.trace
        written  == articles # << >>
        after    == IF written THEN setCached(s.key, articles, trace) ELSE memoryCache
        payload  ==
            [ status        |-> "ok",
              http          |-> 200,
              totalResults  |-> Len(articles),
              articles      |-> articles,
              providerTrace |-> IF articles # << >> THEN trace
                                ELSE IF s.cached # << >> THEN s.cached[1].providerTrace
                                ELSE trace ]
        evicted  ==
            IF written
            THEN Eviction(MapSet(memoryCache, Entry(s.key, now, articles, trace)), after)
            ELSE << >>
    IN  /\ memoryCache' = after
        /\ req' = [ req EXCEPT ![r] =
                       [ s EXCEPT !.pc = "done", !.articles = articles, !.trace = trace,
                                  !.evicted = evicted,
                                  !.tryOrder = << >>, !.collected = << >>,
                                  !.firstError = FALSE, !.resp = <<payload>> ] ]
        /\ lastDone' = << [ key |-> s.key, articles |-> articles,
                            live |-> s.articles # << >>, at |-> now ] >>
        /\ UNCHANGED <<pure, memBuckets, redis, rlReq, rlLog, route, now, rssMemoryCache>>

\* The handler runs on to its next await (s.pc names it) or to its end.
Continue(r, s) ==
    IF s.pc = "finish" THEN Finish(r, s)
    ELSE /\ req' = [ req EXCEPT ![r] = s ]
         /\ UNCHANGED <<pure, memBuckets, redis, rlReq, rlLog, route, now, memoryCache, rssMemoryCache, lastDone>>

\* GET is entered: parseParams, makeKey, getCached, then the first stage.
Start(r, p, useGeminiSearch, e) ==
    /\ route = "news"
    /\ req[r].pc = "idle"
    /\ LET s == [ IdleReq EXCEPT !.params = p, !.key = makeKey(p),
                                 !.cached = getCached(makeKey(p)),
                                 !.useGeminiSearch = useGeminiSearch,
                                 !.startedAt = now, !.prev = lastDone ]
       IN  IF useGeminiSearch
           THEN Continue(r, [ s EXCEPT !.pc = "gemini", !.called = <<"gemini">> ])
           ELSE Continue(r, EnterWeb(s, e))

\* await searchWithGemini(...) settles
GeminiReturn(r, o, e) ==
    /\ req[r].pc = "gemini"
    /\ LET s == req[r]
           geminiItems == IF o.kind = "ok" THEN Tagged(Items("gemini", o.n, now), normalizeCategoryKey(s.params.category)) ELSE << >>
       IN  IF geminiItems # << >>
           THEN Continue(r, AfterGemini([ s EXCEPT !.articles = geminiItems,
                                                   !.trace = Append(@, TraceItem("gemini", Len(geminiItems))),
                                                   !.got = << [ stage |-> "gemini", items |-> geminiItems ] >> ],
                                        e))
           ELSE Continue(r, AfterGemini(s, e))

\* await fn() settles inside searchWithWeb (fn is webSearchTavily or webSearchSerper)
WebReturn(r, o) ==
    /\ req[r].pc \in {"tavily", "serper"}
    /\ LET s == req[r]
       IN  IF o.kind = "ok"
           THEN LET collected == dedupeArticles(s.collected \o Tagged(Items(s.pc, o.n, now), normalizeCategoryKey(s.params.category)))
                IN  IF collected # << >>
                    THEN Continue(r, [ s EXCEPT !.pc = "finish",
                                                !.collected = collected,
                                                !.articles = collected,
                                                !.trace = Append(@, TraceItem("web", Len(collected))),
                                                !.got = << [ stage |-> "web", items |-> collected ] >> ])
                    ELSE Continue(r, WebLoop([ s EXCEPT !.collected = collected ]))
           ELSE Continue(r, WebLoop([ s EXCEPT !.firstError = TRUE ]))

\* await fallbackNewsAPISearch(...) settles
NewsApiReturn(r, o) ==
    /\ req[r].pc = "newsapi"
    /\ LET s == req[r]
           newsApiItems == IF o.kind = "ok" THEN Tagged(Items("newsapi", o.n, now), normalizeCategoryKey(s.params.category)) ELSE << >>
       IN  IF newsApiItems # << >>
           THEN Finish(r, [ s EXCEPT !.articles = newsApiItems,
                                     !.trace = Append(@, TraceItem("newsapi", Len(newsApiItems))),
                                     !.got = << [ stage |-> "newsapi", items |-> newsApiItems ] >> ])
           ELSE Finish(r, s)

----------------------------------------------------------------------------
(* GET of the RSS route *)

\* The articles searchWithRSS returns carry the category the classifier
\* detected; for a request of a specific category they are the ones that
\* passed article.category === category.
RssTagged(items, category) ==
    [ i \in 1 .. Len(items) |->
        [ url       |-> items[i].url,
          title     |-> items[i].title,
          fetchedAt |-> items[i].fetchedAt,
          category  |-> IF category # "all" THEN category
                        ELSE isCorruptionRelated(items[i].title).detectedCategory ] ]

RssRespond(r, s, articles, trace) ==
    /\ req' = [ req EXCEPT ![r] =
                   [ s EXCEPT !.pc = "done", !.articles = articles, !.trace = trace,
                              !.resp = << [ status        |-> "ok",
                                            http          |-> 200,
                                            totalResults  |-> Len(articles),
                                            articles      |-> articles,
                                            providerTrace |-> trace ] >> ] ]
    /\ lastDone' = << [ key |-> s.key, articles |-> articles,
                        live |-> s.cached = << >> /\ articles # << >>, at |-> now ] >>

\* GET is entered: a fresh cache entry is answered at once, else
\* searchWithRSS is called and awaited.
RssStart(r, p) ==
    /\ route = "rss"
    /\ req[r].pc = "idle"
    /\ LET s == [ IdleReq EXCEPT !.params = p, !.key = makeKey(p),
                                 !.cached = rssGetCached(makeKey(p)),
                                 !.startedAt = now, !.prev = lastDone ]
       IN  IF s.cached # << >>
           THEN /\ RssRespond(r, s, s.cached[1].articles,
                               Append(s.cached[1].providerTrace, CacheHit))
                /\ UNCHANGED <<pure, memBuckets, redis, rlReq, rlLog, route, now, memoryCache, rssMemoryCache>>
           ELSE /\ req' = [ req EXCEPT ![r] = [ s EXCEPT !.pc = "rss", !.called = <<"rss">> ] ]
                /\ UNCHANGED <<pure, memBuckets, redis, rlReq, rlLog, route, now, memoryCache, rssMemoryCache, lastDone>>

\* await searchWithRSS(...) settles; the write through and the answer follow
RssReturn(r, o) ==
    /\ req[r].pc = "rss"
    /\ LET s == req[r]
           articles == IF o.kind = "ok" THEN RssTagged(Items("rss", o.n, now), s.params.category) ELSE << >>
           t == IF articles # << >>
                THEN [ s EXCEPT !.got = << [ stage |-> "rss", items |-> articles ] >> ]
                ELSE s
           trace == IF o.kind = "throw" THEN <<RssFailed>>
                    ELSE IF articles # << >> THEN <<TraceItem("rss", Len(articles))>>
                    ELSE << >>
           written == articles # << >>
           after == IF written THEN rssSetCached(s.key, articles, trace) ELSE rssMemoryCache
           evicted ==
               IF written
               THEN Eviction(MapSet(rssMemoryCache, Entry(s.key, now, articles, trace)), after)
               ELSE << >>
       IN  /\ rssMemoryCache' = after
           /\ RssRespond(r, [ t EXCEPT !.evicted = evicted ], articles, trace)
           /\ UNCHANGED <<pure, memBuckets, redis, rlReq, rlLog, route, now, memoryCache>>

----------------------------------------------------------------------------
(* The response leaves, the slot is free again.  The clock stands still    *)
(* between a handler's return and this step.                               *)

Deliver(r) ==
    /\ req[r].pc = "done"
    /\ req' = [ req EXCEPT ![r] = IdleReq ]
    /\ UNCHANGED <<pure, memBuckets, redis, rlReq, rlLog, route, now, memoryCache, rssMemoryCache, lastDone>>

----------------------------------------------------------------------------
(* The rate limiter of the TL;DR route (src/app/api/tldr/route.ts)          *)
(*                                                                         *)
(* checkRateLimit is awaited by POST.  The in-memory limiter is            *)
(* synchronous; the Upstash limiter computes its window locally, then      *)
(* awaits a fetch (without timeout) whose pipeline the store executes at   *)
(* some later instant.                                                     *)

\* TLDR_RATE_WINDOW_SECONDS and TLDR_RATE_MAX of the deployment modelled (the
\* defaults are 60 and 10)
RL_WINDOW_SECONDS == 2
RL_MAX_REQUESTS == 2

\* const ttl = windowSec + 5
UPSTASH_TTL_SLACK == 5

\* getClientIp: a forwarded address, or 'unknown'
Clients == {"10.0.0.1", "unknown"}

Posts == {"q1", "q2"}

\* The instants of the limiter's clock, in ms: the start of each second and
\* the last ms of each window
RLTimes ==
    { sec * 1000 : sec \in 0 .. MaxSec }
        \cup { sec * 1000 - 1 : sec \in { t \in 1 .. MaxSec : t % RL_WINDOW_SECONDS = 0 } }

\* Math.floor(Date.now() / 1000)
NowSec == now \div 1000

\* `rl:tldr:${ip}:${bucket}`
RedisKey(ip, bucket) == <<"rl:tldr", ip, bucket>>

RedisKeys == { RedisKey(ip, b) : ip \in Clients, b \in 0 .. (MaxSec \div RL_WINDOW_SECONDS) }

\* The two deployments: with and without UPSTASH_REDIS_REST_URL and _TOKEN
TldrRoutes == {"tldr", "tldr+upstash"}

IdlePost == [ pc |-> "idle", ip |-> "", nowSec |-> 0, bucket |-> 0 ]

RateLimitResult(allowed, remaining, resetSec) ==
    [ allowed |-> allowed, remaining |-> remaining, resetSec |-> resetSec ]

Max0(n) == IF n > 0 THEN n ELSE 0

\* Mutant of PostAfterLimit: the verdict is ignored.
PostIgnoresLimit(rl) == [ http |-> 200, rateLimited |-> FALSE, gemini |-> TRUE ]

\* POST after `const rl = await checkRateLimit(...)`, with GEMINI_API_KEY set:
\* a denied request is answered 429 with the heuristic summary and
\* rateLimited: true, an allowed one goes on to call Gemini and is answered 200
\* (gemini: fetchJsonWithTimeout is called).
PostAfterLimit(rl) ==
    IF ~rl.allowed
    THEN [ http |-> 429, rateLimited |-> TRUE, gemini |-> FALSE ]
    ELSE [ http |-> 200, rateLimited |-> FALSE, gemini |-> TRUE ]

\* A verdict of the limiter: who asked, at which second, the result, and what
\* POST does with it
Verdict(ip, nowSec, via, result) ==
    [ ip |-> ip, nowSec |-> nowSec, via |-> via, result |-> result,
      post |-> PostAfterLimit(result) ]

\* checkRateLimit: the branch taken for this client
UsesUpstash(ip) == route = "tldr+upstash" /\ ip # "unknown"

\* checkRateLimitMemory: the entry after the call
MemoryEntry(ip, windowSec) ==
    LET entry == memBuckets[ip]
        fresh == IF entry = << >> \/ NowSec >= entry[1].resetSec
                 THEN [ count |-> 0, resetSec |-> NowSec + windowSec ]
                 ELSE entry[1]
    IN  [ fresh EXCEPT !.count = fresh.count + 1 ]

\* checkRateLimitMemory: the result
checkRateLimitMemory(ip, windowSec, limit) ==
    LET entry == MemoryEntry(ip, windowSec)
    IN  RateLimitResult(entry.count <= limit, Max0(limit - entry.count), entry.resetSec)

\* POST with the in-memory limiter: one synchronous step.  limit <= 0
\* disables the limiter: nothing is counted.
PostMemory(ip) ==
    /\ route \in TldrRoutes
    /\ ~UsesUpstash(ip)
    /\ Len(rlLog) + Cardinality({ q \in Posts : rlReq[q].pc # "idle" }) < MaxCalls
    /\ IF RL_MAX_REQUESTS <= 0
       THEN /\ rlLog' = Append(rlLog, Verdict(ip, NowSec, "off",
                           RateLimitResult(TRUE, 0, NowSec + RL_WINDOW_SECONDS)))
            /\ UNCHANGED memBuckets
       ELSE /\ memBuckets' = [ memBuckets EXCEPT ![ip] = << MemoryEntry(ip, RL_WINDOW_SECONDS) >> ]
            /\ rlLog' = Append(rlLog, Verdict(ip, NowSec, "memory",
                           checkRateLimitMemory(ip, RL_WINDOW_SECONDS, RL_MAX_REQUESTS)))
    /\ UNCHANGED <<pure, route, now, memoryCache, rssMemoryCache, req, lastDone, redis, rlReq>>

\* checkRateLimitUpstash up to its await: nowSec and bucket are computed, the
\* pipeline request leaves
PostUpstash(q, ip) ==
    /\ route \in TldrRoutes
    /\ UsesUpstash(ip)
    /\ RL_MAX_REQUESTS > 0
    /\ rlReq[q].pc = "idle"
    /\ Len(rlLog) + Cardinality({ p \in Posts : rlReq[p].pc # "idle" }) < MaxCalls
    /\ rlReq' = [ rlReq EXCEPT ![q] =
                    [ pc |-> "fetch", ip |-> ip, nowSec |-> NowSec,
                      bucket |-> NowSec \div RL_WINDOW_SECONDS ] ]
    /\ UNCHANGED <<pure, route, now, memoryCache, rssMemoryCache, req, lastDone,
                   memBuckets, redis, rlLog>>

\* The store's INCR: a key that is absent or has expired counts from 1
RedisIncr(key) ==
    IF redis[key] = << >> \/ now >= redis[key][1].expireAt
    THEN 1
    ELSE redis[key][1].count + 1

\* checkRateLimitUpstash from the result of the pipeline on
checkRateLimitUpstash(count, bucket, windowSec, limit) ==
    RateLimitResult(count <= limit, Max0(limit - count), bucket * windowSec + windowSec)

\* The store executes ['INCR', key], ['EXPIRE', key, ttl] and the handler
\* resumes with the count.
UpstashPipeline(q) ==
    /\ rlReq[q].pc = "fetch"
    /\ LET s == rlReq[q]
           key == RedisKey(s.ip, s.bucket)
           count == RedisIncr(key)
           ttl == RL_WINDOW_SECONDS + UPSTASH_TTL_SLACK
       IN  /\ redis' = [ redis EXCEPT ![key] =
                           << [ count |-> count, expireAt |-> now + ttl * 1000 ] >> ]
           /\ rlLog' = Append(rlLog, Verdict(s.ip, s.nowSec, "upstash",
                          checkRateLimitUpstash(count, s.bucket, RL_WINDOW_SECONDS,
                                                RL_MAX_REQUESTS)))
    /\ rlReq' = [ rlReq EXCEPT ![q] = IdlePost ]
    /\ UNCHANGED <<pure, route, now, memoryCache, rssMemoryCache, req, lastDone, memBuckets>>

\* !res.ok: checkRateLimitUpstash throws, POST's catch answers with the
\* heuristic summary; the limiter has given no verdict.
UpstashFails(q) ==
    /\ rlReq[q].pc = "fetch"
    /\ rlReq' = [ rlReq EXCEPT ![q] = IdlePost ]
    /\ UNCHANGED <<pure, route, now, memoryCache, rssMemoryCache, req, lastDone,
                   memBuckets, redis, rlLog>>


----------------------------------------------------------------------------
(* The two limiters side by side: every request is given to both, the      *)
(* store executing the pipeline at the instant of the request.             *)

BothLimiters == [ fn |-> "bothLimiters", depth |-> 0, arg |-> << >>, ret |-> << >> ]

\* One request of the client at the present instant: checkRateLimitMemory on
\* memBuckets, checkRateLimitUpstash on the store
PostBoth(ip) ==
    /\ route \in TldrRoutes
    /\ pure = BothLimiters
    /\ Len(rlLog) < MaxCalls
    /\ LET bucket == NowSec \div RL_WINDOW_SECONDS
           key == RedisKey(ip, bucket)
           count == RedisIncr(key)
           ttl == RL_WINDOW_SECONDS + UPSTASH_TTL_SLACK
       IN  /\ memBuckets' = [ memBuckets EXCEPT ![ip] = << MemoryEntry(ip, RL_WINDOW_SECONDS) >> ]
           /\ redis' = [ redis EXCEPT ![key] =
                           << [ count |-> count, expireAt |-> now + ttl * 1000 ] >> ]
           /\ rlLog' = Append(rlLog,
                          [ ip |-> ip, nowSec |-> NowSec,
                            memory |-> checkRateLimitMemory(ip, RL_WINDOW_SECONDS,
                                                            RL_MAX_REQUESTS),
                            upstash |-> checkRateLimitUpstash(count, bucket, RL_WINDOW_SECONDS,
                                                              RL_MAX_REQUESTS) ])
    /\ UNCHANGED <<pure, route, now, memoryCache, rssMemoryCache, req, lastDone, rlReq>>
----------------------------------------------------------------------------
(* The whole TL;DR POST handler: body, limiter, GEMINI_API_KEY, Gemini,     *)
(* catch.  rlLog holds its answers; pure.arg holds the environment.         *)

\* An answer of POST: how the limiter went for it ("none": not asked,
\* "allowed", "denied", "threw"), whether the backing store failed, and the
\* response (gemini: fetchJsonWithTimeout was called for it)
Answer(s, limiter, storeFailed, http, fallback, rateLimited, gemini) ==
    [ ip |-> s.ip, nowSec |-> s.nowSec, limiter |-> limiter, storeFailed |-> storeFailed,
      http |-> http, fallback |-> fallback, rateLimited |-> rateLimited, gemini |-> gemini ]

\* `return json(...)`
Answered(q, answer) ==
    /\ rlLog' = Append(rlLog, answer)
    /\ rlReq' = [ rlReq EXCEPT ![q] = IdlePost ]

\* POST from `if (!rl.allowed)` to the call of Gemini
AfterRateLimit(q, s, rl, storeFailed) ==
    IF ~rl.allowed
    THEN Answered(q, Answer(s, "denied", storeFailed, 429, TRUE, TRUE, FALSE))
    ELSE IF ~pure.arg.GEMINI_API_KEY
    THEN Answered(q, Answer(s, "allowed", storeFailed, 200, TRUE, FALSE, FALSE))
    ELSE /\ rlReq' = [ rlReq EXCEPT ![q] =
                         [ pc |-> "gemini", ip |-> s.ip, nowSec |-> s.nowSec,
                           bucket |-> s.bucket, limiter |-> "allowed",
                           storeFailed |-> storeFailed ] ]
         /\ UNCHANGED rlLog

\* The bodies a request can carry: not JSON, JSON without title and
\* description, JSON with a title
Bodies == {"invalid", "empty", "titled"}

\* POST up to its first await that leaves the process
TldrPost(q, ip, body) ==
    /\ route \in TldrRoutes
    /\ pure.fn = "POST"
    /\ rlReq[q].pc = "idle"
    /\ Len(rlLog) + Cardinality({ p \in Posts : rlReq[p].pc # "idle" }) < MaxCalls
    /\ LET s == [ pc |-> "fetch", ip |-> ip, nowSec |-> NowSec,
                  bucket |-> NowSec \div RL_WINDOW_SECONDS ]
       IN  IF body # "titled"
           THEN /\ Answered(q, Answer(s, "none", FALSE, 400, FALSE, FALSE, FALSE))
                /\ UNCHANGED memBuckets
           ELSE IF RL_MAX_REQUESTS <= 0
           THEN /\ AfterRateLimit(q, s, RateLimitResult(TRUE, 0, NowSec + RL_WINDOW_SECONDS),
                                  FALSE)
                /\ UNCHANGED memBuckets
           ELSE IF UsesUpstash(ip)
           THEN /\ rlReq' = [ rlReq EXCEPT ![q] = s ]
                /\ UNCHANGED <<rlLog, memBuckets>>
           ELSE /\ memBuckets' = [ memBuckets EXCEPT ![ip] =
                                     << MemoryEntry(ip, RL_WINDOW_SECONDS) >> ]
                /\ AfterRateLimit(q, s, checkRateLimitMemory(ip, RL_WINDOW_SECONDS,
                                                            RL_MAX_REQUESTS), FALSE)
    /\ UNCHANGED <<pure, route, now, memoryCache, rssMemoryCache, req, lastDone, redis>>

\* What the pipeline request can come back with: a non-2xx status, the
\* results of INCR and EXPIRE, or a 2xx body whose first entry has no result
\* (the store reports the failed command in the body)
UpstashResponses == {"notOk", "results", "noResult"}

\* checkRateLimitUpstash after `await fetch(...)`, and POST after it
TldrUpstashResponds(q, response) ==
    /\ route \in TldrRoutes
    /\ pure.fn = "POST"
    /\ rlReq[q].pc = "fetch"
    /\ LET s == rlReq[q]
           key == RedisKey(s.ip, s.bucket)
           ttl == RL_WINDOW_SECONDS + UPSTASH_TTL_SLACK
       IN  CASE response = "notOk" ->
                  \* throw; POST's catch answers
                  /\ Answered(q, Answer(s, "threw", TRUE, 200, TRUE, FALSE, FALSE))
                  /\ UNCHANGED redis
             [] response = "results" ->
                  /\ redis' = [ redis EXCEPT ![key] =
                                  << [ count |-> RedisIncr(key),
                                       expireAt |-> now + ttl * 1000 ] >> ]
                  /\ AfterRateLimit(q, s,
                         checkRateLimitUpstash(RedisIncr(key), s.bucket, RL_WINDOW_SECONDS,
                                               RL_MAX_REQUESTS), FALSE)
             [] response = "noResult" ->
                  \* Number(data?.[0]?.result || 0) is 0
                  /\ AfterRateLimit(q, s,
                         checkRateLimitUpstash(0, s.bucket, RL_WINDOW_SECONDS,
                                               RL_MAX_REQUESTS), TRUE)
                  /\ UNCHANGED redis
    /\ UNCHANGED <<pure, route, now, memoryCache, rssMemoryCache, req, lastDone, memBuckets>>

\* What the call of Gemini can end in: a summary, a text shorter than 10
\* characters, or an exception (timeout, non-2xx)
GeminiTldrOutcomes == {"summary", "short", "throws"}

\* POST after `await fetchJsonWithTimeout(...)`
TldrGeminiReturns(q, outcome) ==
    /\ route \in TldrRoutes
    /\ pure.fn = "POST"
    /\ rlReq[q].pc = "gemini"
    /\ Answered(q, Answer(rlReq[q], rlReq[q].limiter, rlReq[q].storeFailed, 200,
                          outcome = "throws", FALSE, TRUE))
    /\ UNCHANGED <<pure, route, now, memoryCache, rssMemoryCache, req, lastDone,
                   memBuckets, redis>>

RlTickIn(T) ==
    /\ route \in TldrRoutes
    /\ \E u \in T : u > now
    /\ now' = NextTime(T, now)
    /\ UNCHANGED <<pure, route, memoryCache, rssMemoryCache, req, lastDone,
                   memBuckets, redis, rlReq, rlLog>>

RlTick == RlTickIn(RLTimes)

\* The instants of the gate specification: the start of each second of the
\* first windows
GateTimes == { sec * 1000 : sec \in 0 .. (MaxWindows + 1) * RL_WINDOW_SECONDS - 1 }

RlTickGate == RlTickIn(GateTimes)

----------------------------------------------------------------------------
(* The clock *)

TickIn(T) ==
    /\ route \in {"news", "rss"}
    /\ \E u \in T : u > now
    /\ \A r \in DOMAIN req : req[r].pc # "done"
    /\ now' = NextTime(T, now)
    /\ UNCHANGED <<pure, memBuckets, redis, rlReq, rlLog, route, memoryCache, rssMemoryCache, req, lastDone>>

Tick == TickIn(Times(route))

TickCoarse == TickIn(CoarseTimes(route))

----------------------------------------------------------------------------

Init ==
    /\ route \in {"news", "rss"}
    /\ now = 0
    /\ memoryCache = << >>
    /\ rssMemoryCache = << >>
    /\ req = [ r \in Reqs |-> IdleReq ]
    /\ lastDone = << >>
    /\ memBuckets = [ ip \in Clients |-> << >> ]
    /\ redis = [ k \in RedisKeys |-> << >> ]
    /\ rlReq = [ q \in Posts |-> IdlePost ]
    /\ rlLog = << >>
    /\ pure = NoCall

\* The chain specification: every environment, one parameter tuple.
Next ==
    \/ \E r \in Reqs, p \in ChainParams, g \in BOOLEAN, e \in WebEnvs : Start(r, p, g, e)
    \/ \E r \in Reqs, o \in Outcomes, e \in WebEnvs : GeminiReturn(r, o, e)
    \/ \E r \in Reqs, o \in Outcomes : WebReturn(r, o)
    \/ \E r \in Reqs, o \in Outcomes : NewsApiReturn(r, o)
    \/ \E r \in Reqs, p \in ChainParams : RssStart(r, p)
    \/ \E r \in Reqs, o \in Outcomes : RssReturn(r, o)
    \/ \E r \in Reqs : Deliver(r)
    \/ Tick

Spec == Init /\ [][Next]_vars

\* The cache specification: every parameter tuple, in a deployment with
\* neither TAVILY_API_KEY nor SERPER_API_KEY set, so that Gemini and NewsAPI
\* are the live providers of the news route.
NoWebEnv == [ hasTavily |-> FALSE, hasSerper |-> FALSE, preferred |-> "" ]

NextCache ==
    \/ \E r \in Reqs, p \in Params, g \in BOOLEAN : Start(r, p, g, NoWebEnv)
    \/ \E r \in Reqs, o \in Outcomes : GeminiReturn(r, o, NoWebEnv)
    \/ \E r \in Reqs, o \in Outcomes : NewsApiReturn(r, o)
    \/ \E r \in Reqs, p \in Params : RssStart(r, p)
    \/ \E r \in Reqs, o \in Outcomes : RssReturn(r, o)
    \/ \E r \in Reqs : Deliver(r)
    \/ TickCoarse

\* The chain specification with its scheduling: every await of the news
\* handler settles (each of its upstream fetches runs under
\* fetchJsonWithTimeout, whose timer covers the body too).  The await of
\* searchWithRSS has no such guarantee.
Settles ==
    \/ \E r \in Reqs, o \in Outcomes, e \in WebEnvs : GeminiReturn(r, o, e)
    \/ \E r \in Reqs, o \in Outcomes : WebReturn(r, o)
    \/ \E r \in Reqs, o \in Outcomes : NewsApiReturn(r, o)

\* The steps of the chain specification, the clock read at the points where
\* a cache entry expires
NextLive ==
    \/ \E r \in Reqs, p \in ChainParams, g \in BOOLEAN, e \in WebEnvs : Start(r, p, g, e)
    \/ Settles
    \/ \E r \in Reqs, p \in ChainParams : RssStart(r, p)
    \/ \E r \in Reqs, o \in Outcomes : RssReturn(r, o)
    \/ \E r \in Reqs : Deliver(r)
    \/ TickCoarse

SpecLive == Init /\ [][NextLive]_vars /\ WF_vars(Settles)

SpecCache == Init /\ [][NextCache]_vars

\* The limiter specification
InitRL ==
    /\ route \in TldrRoutes
    /\ now = 0
    /\ memoryCache = << >>
    /\ rssMemoryCache = << >>
    /\ req = [ r \in Reqs |-> IdleReq ]
    /\ lastDone = << >>
    /\ memBuckets = [ ip \in Clients |-> << >> ]
    /\ redis = [ k \in RedisKeys |-> << >> ]
    /\ rlReq = [ q \in Posts |-> IdlePost ]
    /\ rlLog = << >>
    /\ pure = NoCall

NextRL ==
    \/ \E ip \in Clients : PostMemory(ip)
    \/ \E q \in Posts, ip \in Clients : PostUpstash(q, ip)
    \/ \E q \in Posts : UpstashPipeline(q)
    \/ \E q \in Posts : UpstashFails(q)
    \/ RlTick

SpecRL == InitRL /\ [][NextRL]_vars

\* The gate specification: the news GET handler and the TL;DR POST handler,
\* each with what it does before its first upstream call.
InitGate ==
    /\ route \in {"news"} \cup TldrRoutes
    /\ now = 0
    /\ memoryCache = << >>
    /\ rssMemoryCache = << >>
    /\ req = [ r \in Reqs |-> IdleReq ]
    /\ lastDone = << >>
    /\ memBuckets = [ ip \in Clients |-> << >> ]
    /\ redis = [ k \in RedisKeys |-> << >> ]
    /\ rlReq = [ q \in Posts |-> IdlePost ]
    /\ rlLog = << >>
    /\ pure = NoCall

NextGate ==
    \/ \E r \in Reqs, p \in ChainParams, g \in BOOLEAN : Start(r, p, g, NoWebEnv)
    \/ \E r \in Reqs, o \in Outcomes : GeminiReturn(r, o, NoWebEnv)
    \/ \E r \in Reqs, o \in Outcomes : NewsApiReturn(r, o)
    \/ \E r \in Reqs : Deliver(r)
    \/ TickCoarse
    \/ \E ip \in Clients : PostMemory(ip)
    \/ \E q \in Posts, ip \in Clients : PostUpstash(q, ip)
    \/ \E q \in Posts : UpstashPipeline(q)
    \/ \E q \in Posts : UpstashFails(q)
    \/ RlTickGate

SpecGate == InitGate /\ [][NextGate]_vars

\* The specification of dedupeArticles (news route) applied on its own
InitDedupe ==
    /\ route = "lib"
    /\ now = 0
    /\ memoryCache = << >>
    /\ rssMemoryCache = << >>
    /\ req = [ r \in Reqs |-> IdleReq ]
    /\ lastDone = << >>
    /\ memBuckets = [ ip \in Clients |-> << >> ]
    /\ redis = [ k \in RedisKeys |-> << >> ]
    /\ rlReq = [ q \in Posts |-> IdlePost ]
    /\ rlLog = << >>
    /\ pure \in { [ fn |-> "dedupeArticles", depth |-> 0, arg |-> x, ret |-> << >> ] :
                     x \in ListsUpTo(DedupeArticles, MaxLen) }

NextDedupe ==
    \/ CallDedupe
    \/ CallDedupeAgain

SpecDedupe == InitDedupe /\ [][NextDedupe]_vars

\* The specification of searchWithRSS applied on its own
InitRss ==
    /\ route = "lib"
    /\ now = 0
    /\ memoryCache = << >>
    /\ rssMemoryCache = << >>
    /\ req = [ r \in Reqs |-> IdleReq ]
    /\ lastDone = << >>
    /\ memBuckets = [ ip \in Clients |-> << >> ]
    /\ redis = [ k \in RedisKeys |-> << >> ]
    /\ rlReq = [ q \in Posts |-> IdlePost ]
    /\ rlLog = << >>
    /\ \E x \in ListsUpTo(RssItems, MaxFeedItems), c \in {"all", "dpwh"}, n \in {1, 20} :
          pure = [ fn |-> "searchWithRSS", depth |-> 0,
                   arg |-> [ items |-> x, category |-> c, pageSize |-> n ],
                   ret |-> << >> ]

NextRss ==
    \/ CallSearchWithRSS

SpecRss == InitRss /\ [][NextRss]_vars

\* The specification of searchWithRSS fetching its feeds
InitFeeds ==
    /\ route = "lib"
    /\ now = 0
    /\ memoryCache = << >>
    /\ rssMemoryCache = << >>
    /\ req = [ r \in Reqs |-> IdleReq ]
    /\ lastDone = << >>
    /\ memBuckets = [ ip \in Clients |-> << >> ]
    /\ redis = [ k \in RedisKeys |-> << >> ]
    /\ rlReq = [ q \in Posts |-> IdlePost ]
    /\ rlLog = << >>
    /\ \E c \in {"all", "dpwh"} :
          pure = [ fn |-> "searchWithRSS:feeds", depth |-> 0,
                   arg |-> [ category |-> c, pageSize |-> 20, pc |-> "idle", batch |-> 0,
                             feeds |-> [ i \in FeedIds |-> WaitingFeed ],
                             allArticles |-> << >> ],
                   ret |-> << >> ]

NextFeeds ==
    \/ RssSearchStarts
    \/ \E i \in FeedIds, ok \in BOOLEAN : FeedFetchResponds(i, ok)
    \/ \E i \in FeedIds : FeedFetchRejects(i)
    \/ \E i \in FeedIds : FeedTimerFires(i)
    \/ \E i \in FeedIds, isFeed \in BOOLEAN : FeedTextResolves(i, isFeed)
    \/ \E i \in FeedIds : FeedTextRejects(i)
    \/ BatchSettles
    \/ DelayEnds

SpecFeeds == InitFeeds /\ [][NextFeeds]_vars

\* The same with its scheduling: a timer that is armed fires, a promise whose
\* inputs have settled resolves, the delay ends.  Nothing makes an upstream
\* send its headers or its body.
SpecFeedsLive ==
    /\ InitFeeds /\ [][NextFeeds]_vars
    /\ WF_vars(RssSearchStarts)
    /\ \A i \in FeedIds : WF_vars(FeedTimerFires(i))
    /\ WF_vars(BatchSettles)
    /\ WF_vars(DelayEnds)

\* The specification of the provider adapters applied on their own
InitAdapter ==
    /\ route = "lib"
    /\ now = 0
    /\ memoryCache = << >>
    /\ rssMemoryCache = << >>
    /\ req = [ r \in Reqs |-> IdleReq ]
    /\ lastDone = << >>
    /\ memBuckets = [ ip \in Clients |-> << >> ]
    /\ redis = [ k \in RedisKeys |-> << >> ]
    /\ rlReq = [ q \in Posts |-> IdlePost ]
    /\ rlLog = << >>
    /\ \E f \in Adapters, x \in ListsUpTo(UpstreamItems, MaxUpstream),
          c \in RawCategories, fr \in {"", "F"} :
          \E w \in IF f = "webSearchTavily" THEN WidenedAnswers ELSE { << >> } :
              pure = [ fn |-> f, depth |-> 0,
                       arg |-> [ items |-> x, widened |-> w, category |-> c,
                                 from |-> fr, pageSize |-> 20 ],
                       ret |-> Returned(<< >>) ]

NextAdapter ==
    \/ CallAdapter

SpecAdapter == InitAdapter /\ [][NextAdapter]_vars

\* The category specification: the two routes under the parameter tuples of
\* a specific category, in a deployment with Gemini search on and both web
\* search keys set, and the adapters and searchWithRSS on their own
SpecificParams == { p \in Params : p.category \in CATEGORY_VALUES }

BothWebEnv == [ hasTavily |-> TRUE, hasSerper |-> TRUE, preferred |-> "" ]

InitCategory ==
    \/ Init
    \/ InitAdapter /\ pure.arg.category \in CATEGORY_VALUES
    \/ /\ InitRss
       /\ pure.arg.category \in CATEGORY_VALUES
       /\ pure.arg.pageSize = 20
       /\ \A i \in 1 .. Len(pure.arg.items) : pure.arg.items[i].date = ""

NextCategory ==
    \/ \E r \in Reqs, p \in SpecificParams : Start(r, p, TRUE, BothWebEnv)
    \/ \E r \in Reqs, o \in Outcomes : GeminiReturn(r, o, BothWebEnv)
    \/ \E r \in Reqs, o \in Outcomes : WebReturn(r, o)
    \/ \E r \in Reqs, o \in Outcomes : NewsApiReturn(r, o)
    \/ \E r \in Reqs, p \in SpecificParams : RssStart(r, p)
    \/ \E r \in Reqs, o \in Outcomes : RssReturn(r, o)
    \/ \E r \in Reqs : Deliver(r)
    \/ TickCoarse
    \/ CallAdapter
    \/ CallSearchWithRSS

SpecCategory == InitCategory /\ [][NextCategory]_vars

\* The specification of withinWindow applied on its own
InitWindow ==
    /\ route = "lib"
    /\ now = 0
    /\ memoryCache = << >>
    /\ rssMemoryCache = << >>
    /\ req = [ r \in Reqs |-> IdleReq ]
    /\ lastDone = << >>
    /\ memBuckets = [ ip \in Clients |-> << >> ]
    /\ redis = [ k \in RedisKeys |-> << >> ]
    /\ rlReq = [ q \in Posts |-> IdlePost ]
    /\ rlLog = << >>
    /\ \E f \in WindowFns, iso \in DateStrings, from \in DateStrings, to \in DateStrings :
          pure = [ fn |-> f, depth |-> 0,
                   arg |-> [ iso |-> iso, from |-> from, to |-> to, wide |-> << >> ],
                   ret |-> << >> ]

NextWindow ==
    \/ CallWithinWindow
    \/ \E from2 \in DateStrings, to2 \in DateStrings : CallWithinNarrower(from2, to2)

SpecWindow == InitWindow /\ [][NextWindow]_vars

\* The specification of parseParams applied on its own
InitParams ==
    /\ route = "lib"
    /\ now = 0
    /\ memoryCache = << >>
    /\ rssMemoryCache = << >>
    /\ req = [ r \in Reqs |-> IdleReq ]
    /\ lastDone = << >>
    /\ memBuckets = [ ip \in Clients |-> << >> ]
    /\ redis = [ k \in RedisKeys |-> << >> ]
    /\ rlReq = [ q \in Posts |-> IdlePost ]
    /\ rlLog = << >>
    /\ \E f \in ParamFns, c \in RawCategoryParams, from \in RawDates, to \in RawDates,
          page \in RawNumbers, pageSize \in RawNumbers :
          pure = [ fn |-> f, depth |-> 0,
                   arg |-> [ category |-> c, from |-> from, to |-> to,
                             page |-> page, pageSize |-> pageSize ],
                   ret |-> [ category |-> "", from |-> NullDate, to |-> NullDate,
                             page |-> NaN, pageSize |-> NaN ] ]

NextParams ==
    \/ CallParseParams

SpecParams == InitParams /\ [][NextParams]_vars

\* The specification of isCorruptionRelated applied on its own
InitClassify ==
    /\ route = "lib"
    /\ now = 0
    /\ memoryCache = << >>
    /\ rssMemoryCache = << >>
    /\ req = [ r \in Reqs |-> IdleReq ]
    /\ lastDone = << >>
    /\ memBuckets = [ ip \in Clients |-> << >> ]
    /\ redis = [ k \in RedisKeys |-> << >> ]
    /\ rlReq = [ q \in Posts |-> IdlePost ]
    /\ rlLog = << >>
    /\ \E content \in SUBSET Phrases :
          pure = [ fn |-> "isCorruptionRelated", depth |-> 0, arg |-> content,
                   ret |-> [ isRelevant |-> FALSE, detectedCategory |-> "", score |-> 0 ] ]

NextClassify ==
    \/ CallIsCorruptionRelated

SpecClassify == InitClassify /\ [][NextClassify]_vars

\* The specification of the TL;DR POST handler
InitTldr ==
    /\ route \in TldrRoutes
    /\ now = 0
    /\ memoryCache = << >>
    /\ rssMemoryCache = << >>
    /\ req = [ r \in Reqs |-> IdleReq ]
    /\ lastDone = << >>
    /\ memBuckets = [ ip \in Clients |-> << >> ]
    /\ redis = [ k \in RedisKeys |-> << >> ]
    /\ rlReq = [ q \in Posts |-> IdlePost ]
    /\ rlLog = << >>
    /\ \E key \in BOOLEAN :
          pure = [ fn |-> "POST", depth |-> 0, arg |-> [ GEMINI_API_KEY |-> key ],
                   ret |-> << >> ]

NextTldr ==
    \/ \E q \in Posts, ip \in Clients, body \in Bodies : TldrPost(q, ip, body)
    \/ \E q \in Posts, response \in UpstashResponses : TldrUpstashResponds(q, response)
    \/ \E q \in Posts, o \in GeminiTldrOutcomes : TldrGeminiReturns(q, o)
    \/ RlTickGate

SpecTldr == InitTldr /\ [][NextTldr]_vars

\* The web-stage specification: the news chain in one deployment, whose
\* process.env (pure.arg) is the same for every request.
InitWeb ==
    /\ route = "news"
    /\ now = 0
    /\ memoryCache = << >>
    /\ rssMemoryCache = << >>
    /\ req = [ r \in Reqs |-> IdleReq ]
    /\ lastDone = << >>
    /\ memBuckets = [ ip \in Clients |-> << >> ]
    /\ redis = [ k \in RedisKeys |-> << >> ]
    /\ rlReq = [ q \in Posts |-> IdlePost ]
    /\ rlLog = << >>
    /\ \E e \in WebEnvs :
          pure = [ fn |-> "process.env", depth |-> 0, arg |-> e, ret |-> << >> ]

NextWeb ==
    \/ \E r \in Reqs, p \in ChainParams, g \in BOOLEAN : Start(r, p, g, pure.arg)
    \/ \E r \in Reqs, o \in Outcomes : GeminiReturn(r, o, pure.arg)
    \/ \E r \in Reqs, o \in Outcomes : WebReturn(r, o)
    \/ \E r \in Reqs, o \in Outcomes : NewsApiReturn(r, o)
    \/ \E r \in Reqs : Deliver(r)
    \/ TickCoarse

SpecWeb == InitWeb /\ [][NextWeb]_vars

\* The specification of the upstream calls of one adapter call
InitCalls ==
    /\ route = "lib"
    /\ now = 0
    /\ memoryCache = << >>
    /\ rssMemoryCache = << >>
    /\ req = [ r \in Reqs |-> IdleReq ]
    /\ lastDone = << >>
    /\ memBuckets = [ ip \in Clients |-> << >> ]
    /\ redis = [ k \in RedisKeys |-> << >> ]
    /\ rlReq = [ q \in Posts |-> IdlePost ]
    /\ rlLog = << >>
    /\ \E adapter \in NewsAdapters, pageSize \in {1, 2 * MaxUpstream} :
          pure = [ fn |-> "upstreamCalls", depth |-> 0,
                   arg |-> [ adapter |-> adapter, pageSize |-> pageSize, pc |-> "idle",
                             calls |-> << >>, data |-> 0 ],
                   ret |-> << >> ]

NextCalls ==
    \/ AdapterBegins
    \/ \E answer \in UpstreamAnswers : UpstreamEnds(answer)

SpecCalls == InitCalls /\ [][NextCalls]_vars

\* The specification of two news requests served at the same time, with the
\* same parameters, in a deployment without web-search providers
ReqPair == {"r1", "r2"}

InitPair ==
    /\ route = "news"
    /\ now = 0
    /\ memoryCache = << >>
    /\ rssMemoryCache = << >>
    /\ req = [ r \in ReqPair |-> IdleReq ]
    /\ lastDone = << >>
    /\ memBuckets = [ ip \in Clients |-> << >> ]
    /\ redis = [ k \in RedisKeys |-> << >> ]
    /\ rlReq = [ q \in Posts |-> IdlePost ]
    /\ rlLog = << >>
    /\ pure = NoCall

NextPair ==
    \/ \E r \in ReqPair, p \in ChainParams : Start(r, p, TRUE, NoWebEnv)
    \/ \E r \in ReqPair, o \in Outcomes : GeminiReturn(r, o, NoWebEnv)
    \/ \E r \in ReqPair, o \in Outcomes : NewsApiReturn(r, o)
    \/ \E r \in ReqPair : Deliver(r)
    \/ TickCoarse

SpecPair == InitPair /\ [][NextPair]_vars

\* The specification of the adapters of the news route applied to answers
\* that hold distinct stories of a local outlet, for a small and for the
\* default pageSize
PageItems ==
    [ title  : { <<"story", 1, "Caps">>, <<"story", 2, "Caps">> },
      url    : { <<"rappler.com", "story", 1, "">>, <<"rappler.com", "story", 2, "">> },
      source : { "Rappler" },
      date   : { "" } ]

InitPage ==
    /\ route = "lib"
    /\ now = 0
    /\ memoryCache = << >>
    /\ rssMemoryCache = << >>
    /\ req = [ r \in Reqs |-> IdleReq ]
    /\ lastDone = << >>
    /\ memBuckets = [ ip \in Clients |-> << >> ]
    /\ redis = [ k \in RedisKeys |-> << >> ]
    /\ rlReq = [ q \in Posts |-> IdlePost ]
    /\ rlLog = << >>
    /\ \E f \in NewsAdapters, x \in ListsUpTo(PageItems, MaxUpstream), n \in {1, 20} :
          \E w \in IF f = "webSearchTavily" THEN ListsUpTo(PageItems, 1) ELSE { << >> } :
              pure = [ fn |-> f, depth |-> 0,
                       arg |-> [ items |-> x, widened |-> w, category |-> "all",
                                 from |-> "", pageSize |-> n ],
                       ret |-> Returned(<< >>) ]

NextPage ==
    \/ CallAdapter

SpecPage == InitPage /\ [][NextPage]_vars

\* The specification of the publishedAt of an item through an adapter; the
\* bounds of the window are null or parseable, as parseParams leaves them
InitDates ==
    /\ route = "lib"
    /\ now = 0
    /\ memoryCache = << >>
    /\ rssMemoryCache = << >>
    /\ req = [ r \in Reqs |-> IdleReq ]
    /\ lastDone = << >>
    /\ memBuckets = [ ip \in Clients |-> << >> ]
    /\ redis = [ k \in RedisKeys |-> << >> ]
    /\ rlReq = [ q \in Posts |-> IdlePost ]
    /\ rlLog = << >>
    /\ \E adapter \in NewsAdapters, raw \in DateStrings, nowT \in 0 .. MaxDate,
          from \in {NullDate} \cup (0 .. MaxDate), to \in {NullDate} \cup (0 .. MaxDate) :
          pure = [ fn |-> "publishedAt", depth |-> 0,
                   arg |-> [ adapter |-> adapter, raw |-> raw, from |-> from, to |-> to,
                             nowT |-> nowT ],
                   ret |-> DateDropped ]

NextDates ==
    \/ CallPublishedAt

SpecDates == InitDates /\ [][NextDates]_vars

\* The specification of the two limiters given the same requests
InitBoth ==
    /\ route = "tldr"
    /\ now = 0
    /\ memoryCache = << >>
    /\ rssMemoryCache = << >>
    /\ req = [ r \in Reqs |-> IdleReq ]
    /\ lastDone = << >>
    /\ memBuckets = [ ip \in Clients |-> << >> ]
    /\ redis = [ k \in RedisKeys |-> << >> ]
    /\ rlReq = [ q \in Posts |-> IdlePost ]
    /\ rlLog = << >>
    /\ pure = BothLimiters

NextBoth ==
    \/ \E ip \in Clients : PostBoth(ip)
    \/ RlTick

SpecBoth == InitBoth /\ [][NextBoth]_vars

\* The specification of the feed page
InitFeedPage ==
    /\ route = "lib"
    /\ now = 0
    /\ memoryCache = << >>
    /\ rssMemoryCache = << >>
    /\ req = [ r \in Reqs |-> IdleReq ]
    /\ lastDone = << >>
    /\ memBuckets = [ ip \in Clients |-> << >> ]
    /\ redis = [ k \in RedisKeys |-> << >> ]
    /\ rlReq = [ q \in Posts |-> IdlePost ]
    /\ rlLog = << >>
    /\ pure = [ fn |-> "feedPage", depth |-> 0, arg |-> MountedPage, ret |-> << >> ]

NextFeedPage ==
    \/ \E category \in PageCategories, query \in PageQueries, day \in PageDays :
          SelectFilters(category, query, day)
    \/ PageTimerFires
    \/ RetryClicked
    \/ \E i \in 1 .. MaxInFlight : NewsResponds(i)
    \/ \E i \in 1 .. MaxInFlight, isRetryable \in BOOLEAN : NewsFails(i, isRetryable)

SpecFeedPage == InitFeedPage /\ [][NextFeedPage]_vars

----------------------------------------------------------------------------
(* Vocabulary of the properties *)

Started(r) == req[r].pc # "idle"
Done(r) == req[r].pc = "done"
Resp(r) == req[r].resp[1]

Stages == {"gemini", "web", "newsapi", "rss"}
IsStage(c) == c \in Stages

\* The stage functions a request has called, in order
StageCalls(r) == SelectSeq(req[r].called, IsStage)

IsPrefix(a, b) == Len(a) <= Len(b) /\ a = SubSeq(b, 1, Len(a))

\* The live stages enabled for a request, in the order of the route
EnabledStages(r) ==
    IF route = "rss" THEN <<"rss">>
    ELSE IF req[r].useGeminiSearch THEN <<"gemini", "web", "newsapi">>
    ELSE <<"web", "newsapi">>

InTrace(item, trace) == \E i \in 1 .. Len(trace) : trace[i] = item

\* No live stage of the request returned an article
AllFailed(r) == req[r].got = << >>

----------------------------------------------------------------------------
\* C1: in the news GET handler the stages are tried in the fixed order Gemini
\* (only when enabled), web search, NewsAPI; once a stage has returned
\* articles no later stage is called; and the response carries exactly the
\* articles of that stage, with a providerTrace that names it and nothing else.
C1_FallbackOrder ==
    \A r \in Reqs :
        (route = "news" /\ Started(r)) =>
            /\ IsPrefix(StageCalls(r), EnabledStages(r))
            /\ req[r].got # << >> =>
                    req[r].got[1].stage = StageCalls(r)[Len(StageCalls(r))]
            /\ (Done(r) /\ req[r].got # << >>) =>
                    /\ Resp(r).status = "ok"
                    /\ Resp(r).articles = req[r].got[1].items
                    /\ Resp(r).providerTrace =
                           << TraceItem(req[r].got[1].stage, Len(req[r].got[1].items)) >>

\* C1 witness: Gemini is enabled and fails, the web stage returns nothing,
\* NewsAPI returns articles and the response is sent.
C1_Witness ==
    \E r \in Reqs :
        /\ route = "news" /\ Done(r)
        /\ StageCalls(r) = <<"gemini", "web", "newsapi">>
        /\ req[r].got # << >> /\ req[r].got[1].stage = "newsapi"

\* C2 (as claimed): when every stage fails or returns nothing and no fresh
\* cache entry was found, the response is an explicit error (status "error",
\* HTTP 5xx), never status "ok" with an empty list.
C2_ExplicitError ==
    \A r \in Reqs :
        (Done(r) /\ AllFailed(r) /\ req[r].cached = << >>) =>
            /\ Resp(r).status = "error"
            /\ Resp(r).http >= 500

C4_CacheFallback ==
    \A r \in Reqs :
        (route = "news" /\ Done(r) /\ AllFailed(r) /\ req[r].cached # << >>) =>
            /\ Resp(r).status = "ok"
            /\ Resp(r).articles = req[r].cached[1].articles
            /\ Resp(r).totalResults = Len(req[r].cached[1].articles)
            /\ InTrace(CacheHit, Resp(r).providerTrace)

\* C4 witness: such a response, after all three stages were called.
C4_Witness ==
    \E r \in Reqs :
        /\ route = "news" /\ Done(r) /\ AllFailed(r) /\ req[r].cached # << >>
        /\ StageCalls(r) = <<"gemini", "web", "newsapi">>

\* C5 (as claimed): no response carries an article that was obtained from a
\* live provider more than the TTL before the request started.
C5_NoLifetimeExtension ==
    \A r \in Reqs :
        Done(r) =>
            \A i \in 1 .. Len(Resp(r).articles) :
                req[r].startedAt <= Resp(r).articles[i].fetchedAt + TtlOf(route)

\* C6: an entry of the cache (of either route) written at time ts is what
\* getCached returns at every instant before ts + TTL, and getCached returns
\* null for its key at every instant after ts + TTL.
C6_TtlBoundary ==
    /\ \A i \in 1 .. Len(memoryCache) :
           LET e == memoryCache[i]
           IN  /\ now < e.ts + CACHE_TTL_MS => getCached(e.key) = <<e>>
               /\ now > e.ts + CACHE_TTL_MS => getCached(e.key) = << >>
    /\ \A i \in 1 .. Len(rssMemoryCache) :
           LET e == rssMemoryCache[i]
           IN  /\ now < e.ts + RSS_CACHE_TTL_MS => rssGetCached(e.key) = <<e>>
               /\ now > e.ts + RSS_CACHE_TTL_MS => rssGetCached(e.key) = << >>

\* C6 witness: one ms before its expiry an entry of the news cache is
\* found by a request that starts.
C6_Witness ==
    \E r \in Reqs :
        /\ route = "news" /\ Started(r) /\ req[r].cached # << >>
        /\ req[r].startedAt = req[r].cached[1].ts + CACHE_TTL_MS - 1

\* C7: after a news response that carries articles of a live provider the
\* cache holds, under the request's key, an entry with exactly these articles,
\* written when the response was built; and a request that follows it on the
\* same key within the TTL and whose stages all fail is served these articles.
C7_WriteThrough ==
    route = "news" =>
        /\ (lastDone # << >> /\ lastDone[1].live) =>
               LET e == MapGet(memoryCache, lastDone[1].key)
               IN  /\ e # << >>
                   /\ e[1].articles = lastDone[1].articles
                   /\ e[1].ts = lastDone[1].at
        /\ \A r \in Reqs :
               ( /\ Done(r) /\ AllFailed(r)
                 /\ req[r].prev # << >> /\ req[r].prev[1].live
                 /\ req[r].prev[1].key = req[r].key
                 /\ req[r].startedAt - req[r].prev[1].at < CACHE_TTL_MS ) =>
                   /\ Resp(r).status = "ok"
                   /\ Resp(r).articles = req[r].prev[1].articles

\* C7 witness: a request served the articles of the live response before it,
\* some time after that response.
C7_Witness ==
    \E r \in Reqs :
        /\ route = "news" /\ Done(r) /\ AllFailed(r)
        /\ req[r].prev # << >> /\ req[r].prev[1].live
        /\ req[r].prev[1].key = req[r].key
        /\ req[r].startedAt > req[r].prev[1].at
        /\ req[r].startedAt - req[r].prev[1].at < CACHE_TTL_MS
        /\ Resp(r).articles = req[r].prev[1].articles

\* C8: either cache never holds more than its MAX_CACHE_ENTRIES entries, and
\* a write that overflows removes one entry, whose ts is the smallest of the
\* entries the cache held after the write.
C8_BoundedOldestEvicted ==
    /\ Len(memoryCache) <= MAX_CACHE_ENTRIES
    /\ Len(rssMemoryCache) <= RSS_MAX_CACHE_ENTRIES
    /\ \A r \in Reqs :
           req[r].evicted # << >> =>
               /\ req[r].evicted[1].count = 1
               /\ req[r].evicted[1].ts = req[r].evicted[1].minTs

\* C8 witness: a write of the news route has evicted an entry older than
\* another entry it kept.
C8_Witness ==
    \E r \in Reqs :
        /\ route = "news" /\ req[r].evicted # << >>
        /\ \E i \in 1 .. Len(memoryCache) :
               /\ memoryCache[i].key # req[r].key
               /\ memoryCache[i].ts > req[r].evicted[1].ts

\* C9 (as claimed): a response is served from the cache only when the
\* request called every enabled live stage and none returned an article, and
\* a request that found a fresh entry calls its stages all the same.
C9_CacheLastResort ==
    \A r \in Reqs :
        /\ (Done(r) /\ InTrace(CacheHit, Resp(r).providerTrace)) =>
               /\ StageCalls(r) = EnabledStages(r)
               /\ AllFailed(r)
        /\ (Started(r) /\ req[r].cached # << >>) => req[r].called # << >>

\* C9 (amended): that holds of the news route; the RSS route answers a
\* request that finds a fresh entry from the cache at once, without calling
\* searchWithRSS.
C9_CacheLastResortNews ==
    \A r \in Reqs :
        /\ route = "news" =>
               /\ (Done(r) /\ InTrace(CacheHit, Resp(r).providerTrace)) =>
                      /\ StageCalls(r) = EnabledStages(r)
                      /\ AllFailed(r)
               /\ Started(r) => req[r].called # << >>
        /\ (route = "rss" /\ Started(r) /\ req[r].cached # << >>) =>
               /\ Done(r)
               /\ req[r].called = << >>
               /\ Resp(r).articles = req[r].cached[1].articles
               /\ InTrace(CacheHit, Resp(r).providerTrace)

\* C9 witness: a news request found a fresh entry, called all three stages
\* in vain and answered from the cache.
C9_Witness ==
    \E r \in Reqs :
        /\ route = "news" /\ Done(r)
        /\ InTrace(CacheHit, Resp(r).providerTrace)
        /\ StageCalls(r) = <<"gemini", "web", "newsapi">>

----------------------------------------------------------------------------
\* The verdicts given before the i-th to the same client for the same window
\* (a window is known by its reset time), the i-th included
RankInWindow(i) ==
    Cardinality({ j \in 1 .. i :
                    /\ rlLog[j].ip = rlLog[i].ip
                    /\ rlLog[j].result.resetSec = rlLog[i].result.resetSec })

\* C10 (as claimed): every request is counted in the window its second lies
\* in, and of the requests of one client counted in one window exactly the
\* first RL_MAX_REQUESTS are allowed; so the first request after a reset is
\* allowed again.
C10_FixedWindowLimit ==
    \A i \in 1 .. Len(rlLog) :
        LET v == rlLog[i]
        IN  /\ v.result.resetSec - RL_WINDOW_SECONDS <= v.nowSec
            /\ v.nowSec < v.result.resetSec
            /\ v.result.allowed <=> RankInWindow(i) <= RL_MAX_REQUESTS

----------------------------------------------------------------------------
----------------------------------------------------------------------------
\* C12: dedupeArticles is idempotent: applied to a list it returned, it
\* returns that list, in the same order.
C12_DedupeIdempotent ==
    (pure.fn = "dedupeArticles" /\ pure.depth = 2) => pure.ret = pure.arg

\* C12 witness: the first application removed something and merged a
\* title-keyed article, and the second application has been made.
C12_Witness ==
    /\ pure.fn = "dedupeArticles" /\ pure.depth = 2
    /\ Len(pure.ret) = 2
    /\ pure.ret[1].url # NoUrl
    /\ pure.ret[2].url = NoUrl

\* Two articles have the same URL once the query string is stripped
SameCanonUrl(a, b) == a.url # NoUrl /\ b.url # NoUrl /\ CanonUrl(a.url) = CanonUrl(b.url)

\* C13 (as claimed): of the articles of the argument that have one canonical
\* URL (on a host that is not deny-listed), whatever their titles, the result
\* holds exactly one, the first.
C13_OnePerCanonUrl ==
    (pure.fn = "dedupeArticles" /\ pure.depth = 1) =>
        \A i \in 1 .. Len(pure.arg) :
            LET a == pure.arg[i]
            IN  ( /\ a.url # NoUrl
                  /\ getHostname(a.url) \notin EXCLUDE_DOMAINS
                  /\ \A j \in 1 .. i - 1 : ~SameCanonUrl(pure.arg[j], a) ) =>
                    /\ \E k \in 1 .. Len(pure.ret) : pure.ret[k] = a
                    /\ \A k \in 1 .. Len(pure.ret) :
                           SameCanonUrl(pure.ret[k], a) => pure.ret[k] = a

----------------------------------------------------------------------------
\* C14 (as claimed): of two feed items with identical titles whose links
\* differ only in the query string, whichever feeds they are in, the result of
\* searchWithRSS holds exactly one.
C14_RssOnePerStory ==
    (pure.fn = "searchWithRSS" /\ pure.depth = 1) =>
        \A i, j \in 1 .. Len(pure.arg.items) :
            LET a == pure.arg.items[i]
                b == pure.arg.items[j]
            IN  ( /\ i < j
                  /\ a.title # NoTitle /\ a.title = b.title
                  /\ a.link # NoUrl /\ b.link # NoUrl
                  /\ a.link # b.link /\ CanonUrl(a.link) = CanonUrl(b.link) ) =>
                    Cardinality({ k \in 1 .. Len(pure.ret) :
                                    /\ pure.ret[k].title = a.title
                                    /\ CanonUrl(pure.ret[k].url) = CanonUrl(a.link) }) = 1


\* An adapter has been called and has returned articles
AdapterReturned == pure.fn \in Adapters /\ pure.depth = 1 /\ ~pure.ret.threw

\* C15: every article of a news response has a category that is one of
\* flood-control, dpwh, corrupt-politicians and nepo-babies, whatever the
\* category of the request ('all' and unrecognised values included); 'all' is
\* never stored on an article.
C15_CategoryEnumerated ==
    AdapterReturned =>
        \A i \in 1 .. Len(pure.ret.articles) :
            pure.ret.articles[i].category \in CATEGORY_VALUES


\* Every article of a list has category c
AllOfCategory(articles, c) == \A i \in 1 .. Len(articles) : articles[i].category = c

C17_NonEmptyTitle ==
    (AdapterReturned /\ pure.fn # "legacySearchWithGemini") =>
        \A i \in 1 .. Len(pure.ret.articles) : pure.ret.articles[i].title # NoTitle


\* C18: normalizing an upstream item never raises: an item whose date is
\* present but does not parse becomes an article dated now, and the adapter
\* (Gemini, Tavily, Serper, NewsAPI) neither fails nor loses its other items.
C18_NeverRaises ==
    (pure.fn \in Adapters \ {"legacySearchWithGemini"} /\ pure.depth = 1) =>
        /\ ~pure.ret.threw
        /\ \A i \in 1 .. Len(pure.ret.articles) :
               pure.ret.articles[i].publishedAt \in {"old", "now"}


\* The awaits of the news GET handler
NewsAwaits == {"gemini", "tavily", "serper", "newsapi"}

\* At every point of a run of the news GET handler: it is at one of its
\* awaits or has answered, it has sent nothing before its end and one
\* well-formed response at its end.
WellFormed(r) ==
    /\ req[r].pc \in {"idle", "done"} \cup NewsAwaits
    /\ ~Done(r) => req[r].resp = << >>
    /\ Done(r) =>
           /\ Len(req[r].resp) = 1
           /\ Resp(r).status \in {"ok", "error"}
           /\ DOMAIN Resp(r).articles = 1 .. Len(Resp(r).articles)
           /\ Resp(r).totalResults = Len(Resp(r).articles)

\* C19: every run of the news GET handler, whatever its providers do (throw,
\* time out, answer nothing), ends with exactly one JSON response whose
\* status is "ok" or "error", whose articles is a list and whose
\* totalResults is the length of that list; no exception escapes the handler.
C19_WellFormedResponse ==
    \A r \in Reqs :
        /\ [](route = "news" => WellFormed(r))
        /\ (route = "news" /\ Started(r)) ~> Done(r)

\* C19 witness: the handler has answered after every provider threw and the
\* cache held nothing.
C19_Witness ==
    \E r \in Reqs :
        /\ route = "news" /\ Done(r) /\ AllFailed(r) /\ req[r].cached = << >>
        /\ StageCalls(r) = <<"gemini", "web", "newsapi">>
        /\ Resp(r).articles = << >> /\ Resp(r).totalResults = 0


\* C20: no article of a news response, from a provider stage, from the RSS
\* path or from the cache, has a hostname that is on the aggregator
\* deny-list, even when its source name or hostname passes the locality rules.
C20_NoDenyListedHost ==
    (pure.fn = "searchWithRSS" /\ pure.depth = 1) =>
        \A i \in 1 .. Len(pure.ret) : getHostname(pure.ret[i].url) \notin EXCLUDE_DOMAINS

\* C21: the date window is monotone: for a timestamp that parses and windows
\* W' inside W (an absent bound being no bound), when withinWindow(t, W) is
\* false so is withinWindow(t, W').
C21_WindowMonotone ==
    (pure.fn \in WindowFns /\ pure.depth = 2 /\ ~IsNaNDate(pure.arg.iso)) =>
        (pure.ret[1] = FALSE => pure.ret[2] = FALSE)

\* C21 witness: a timestamp outside a window bounded on both sides was tried
\* against a strictly smaller window.
C21_Witness ==
    /\ pure.fn \in WindowFns /\ pure.depth = 2 /\ ~IsNaNDate(pure.arg.iso)
    /\ pure.ret = <<FALSE, FALSE>>
    /\ pure.arg.wide[1] # NullDate /\ pure.arg.wide[2] # NullDate
    /\ pure.arg.from > pure.arg.wide[1] /\ pure.arg.to < pure.arg.wide[2]

\* C22: withinWindow is true for every timestamp that does not parse,
\* whatever the bounds, and for every timestamp when neither bound is given.
C22_FailOpen ==
    (pure.fn \in WindowFns /\ pure.depth = 1) =>
        /\ IsNaNDate(pure.arg.iso) => pure.ret[1]
        /\ (pure.arg.from = NullDate /\ pure.arg.to = NullDate) => pure.ret[1]

\* C22 witness: a timestamp that does not parse was let through a window
\* bounded on both sides.
C22_Witness ==
    /\ pure.fn \in WindowFns /\ pure.depth = 1
    /\ pure.arg.iso = BadDate /\ pure.arg.from >= 0 /\ pure.arg.to >= 0
    /\ pure.ret = <<TRUE>>

\* C23: for every query string parseParams rejects nothing and returns a
\* category among all and the four categories, page >= 1, pageSize from 1 to
\* 50, and from and to each null or a value that parses as a date.
C23_ParamsInRange ==
    (pure.fn \in ParamFns /\ pure.depth = 1) =>
        /\ pure.ret.category \in {"all"} \cup CATEGORY_VALUES
        /\ pure.ret.page.k = "num" /\ pure.ret.page.v >= 10
        /\ pure.ret.pageSize.k = "num"
        /\ pure.ret.pageSize.v >= 10 /\ pure.ret.pageSize.v <= 500
        /\ pure.ret.from = NullDate \/ ~IsNaNDate(pure.ret.from)
        /\ pure.ret.to = NullDate \/ ~IsNaNDate(pure.ret.to)

\* C26: the list searchWithRSS returns holds no two articles of one dedup
\* key and at most pageSize articles; an earlier article never has a lower
\* classifier score than a later one nor, at equal score, an older publish
\* date; and the truncation keeps the first pageSize articles of that order.
C26_SortedDedupedTruncated ==
    (pure.fn = "searchWithRSS" /\ pure.depth = 1) =>
        LET ret == pure.ret
            score(a) == isCorruptionRelated(a.title).score
        IN  /\ \A i, j \in 1 .. Len(ret) : RssDedupeKey(ret[i]) = RssDedupeKey(ret[j]) => i = j
            /\ Len(ret) <= pure.arg.pageSize
            /\ \A i, j \in 1 .. Len(ret) :
                   i < j => /\ score(ret[i]) >= score(ret[j])
                            /\ score(ret[i]) = score(ret[j]) =>
                                   DateRank(ret[i].publishedAt) >= DateRank(ret[j].publishedAt)
            /\ ret = FirstN(searchWithRSS(pure.arg.items, pure.arg.category, 20),
                            pure.arg.pageSize)

\* C26 witness: two articles of one score, the older one first in the feeds,
\* and a page of one: the newer one is returned.
C26_Witness ==
    /\ pure.fn = "searchWithRSS" /\ pure.depth = 1 /\ pure.arg.pageSize = 1
    /\ Len(pure.arg.items) = 2
    /\ Len(searchWithRSS(pure.arg.items, pure.arg.category, 20)) = 2
    /\ pure.arg.items[1].date = "old" /\ pure.arg.items[2].date = ""
    /\ pure.arg.items[1].title[2] = pure.arg.items[2].title[2]
    /\ Len(pure.ret) = 1 /\ pure.ret[1].publishedAt = "now"

\* The categories that have the maximum score of a text
TopCategories(content) ==
    { c \in DOMAIN categoryScores(content) :
        \A d \in DOMAIN categoryScores(content) :
            categoryScores(content)[d] <= categoryScores(content)[c] }

\* C27: in the classifier, whenever two categories or more share the maximum
\* score the detected category is corrupt-politicians, also when
\* corrupt-politicians is not one of them.
C27_TieIsCorruptPoliticians ==
    (pure.fn = "isCorruptionRelated" /\ pure.depth = 1 /\ Cardinality(TopCategories(pure.arg)) >= 2) =>
        pure.ret.detectedCategory = "corrupt-politicians"

\* C28: a text that contains both 'cancel' and 'nepo' gets a nepo-babies score
\* of 5 at least and is relevant; when it matches no keyword of another
\* category its detected category is nepo-babies.
C28_CancelNepo ==
    (/\ pure.fn = "isCorruptionRelated" /\ pure.depth = 1
     /\ Includes(pure.arg, "cancel") /\ Includes(pure.arg, "nepo")) =>
        /\ categoryScores(pure.arg)["nepo-babies"] >= 5
        /\ pure.ret.isRelevant /\ pure.ret.score >= 1
        /\ (\A c \in DOMAIN categoryScores(pure.arg) \ {"nepo-babies"} :
               categoryScores(pure.arg)[c] = 0)
           => pure.ret.detectedCategory = "nepo-babies"

\* C28 witness: 'cancel' and 'nepo' written apart, nothing else: the bonus
\* alone makes the text a nepo-babies one.
C28_Witness ==
    /\ pure.fn = "isCorruptionRelated" /\ pure.depth = 1
    /\ pure.arg = {"cancel", "nepo"}
    /\ pure.ret = [ isRelevant |-> TRUE, detectedCategory |-> "nepo-babies", score |-> 5 ]

----------------------------------------------------------------------------
\* C29: the call of Gemini of the summarization endpoint is made only for a
\* request the rate limiter allowed: when the limiter denies the request, or
\* the limiter fails on an error of its backing store, the handler answers
\* with the heuristic summary and makes no call of Gemini.
C29_LlmOnlyWhenAllowed ==
    route \in TldrRoutes /\ pure.fn = "POST" =>
        /\ \A q \in Posts :
               rlReq[q].pc = "gemini" =>
                   rlReq[q].limiter = "allowed" /\ ~rlReq[q].storeFailed
        /\ \A i \in 1 .. Len(rlLog) :
               LET a == rlLog[i]
               IN  /\ a.gemini => a.limiter = "allowed" /\ ~a.storeFailed
                   /\ (a.limiter = "denied" \/ a.storeFailed) => a.fallback /\ ~a.gemini

----------------------------------------------------------------------------
\* The web-search providers a request has called
WebProvidersTried(r) ==
    { req[r].called[i] : i \in 1 .. Len(req[r].called) } \cap {"tavily", "serper"}

\* The web stage of a request has returned articles
WebGave(r) == \E i \in 1 .. Len(req[r].trace) : req[r].trace[i].tag = "web"

\* C30: in the web-search stage, when both providers are configured and the
\* first one tried fails or returns zero articles, the other one is tried
\* next, whatever WEB_SEARCH_PROVIDER is.
C30_OtherProviderTried ==
    \A r \in Reqs :
        (/\ route = "news" /\ pure.fn = "process.env"
         /\ pure.arg.hasTavily /\ pure.arg.hasSerper
         /\ req[r].pc \in {"newsapi", "done"}
         /\ WebProvidersTried(r) # {}
         /\ ~WebGave(r)) =>
            WebProvidersTried(r) = {"tavily", "serper"}

----------------------------------------------------------------------------
\* The feeds whose parseRSSFeed ended with articles parsed from their body
FeedsOk == { i \in FeedIds : pure.arg.feeds[i].how = "ok" }

\* The sources of the articles of a list
SourcesOf(l) == { l[i].source : i \in 1 .. Len(l) }

\* C24: a feed that times out, answers a non-2xx status or holds unparseable
\* content contributes no article, and the articles of every other feed, of
\* its batch and of the later batches, are collected; searchWithRSS returns
\* whatever fails.
C24_FailedFeedContributesNothing ==
    FeedsProcess =>
        /\ \A i \in FeedIds :
               (pure.arg.feeds[i].st = "settled" /\ i \notin FeedsOk) =>
                   pure.arg.feeds[i].value = << >>
        /\ pure.arg.pc = "returned" =>
               /\ \A i \in FeedIds : pure.arg.feeds[i].st = "settled"
               /\ SourcesOf(pure.arg.allArticles) = { FeedList[i] : i \in FeedsOk }
               /\ SourcesOf(pure.ret) = { FeedList[i] : i \in FeedsOk }

\* C24 witness: the first feed timed out and the two others answered
\* with a feed: searchWithRSS returned the articles of these two.
C24_Witness ==
    /\ FeedsProcess
    /\ pure.arg.pc = "returned"
    /\ pure.arg.feeds[1].how = "timeout"
    /\ pure.arg.feeds[2].how = "ok"
    /\ pure.arg.feeds[3].how = "ok"
    /\ SourcesOf(pure.ret) = { FeedList[2], FeedList[3] }

\* C25: searchWithRSS always returns in the end: a feed that hangs before its
\* response headers or while its body is read is abandoned when its timer
\* expires.
C25_SearchReturns ==
    (FeedsProcess /\ pure.arg.pc = "await") ~> (FeedsProcess /\ pure.arg.pc = "returned")

----------------------------------------------------------------------------
\* C31: within one request, once a call to an upstream provider has failed,
\* no further call is made to that provider.
C31_NoCallAfterFailure ==
    pure.fn = "upstreamCalls" =>
        \A i \in 1 .. Len(pure.arg.calls) :
            FetchThrows(pure.arg.calls[i].answer) =>
                /\ i = Len(pure.arg.calls)
                /\ pure.arg.pc \in {"returned", "threw"}

\* C32: an upstream call of an adapter that ends in a non-2xx answer, a
\* timeout or an error makes the adapter fail towards the orchestrator; none
\* is caught with the adapter carrying on.
C32_FailureSurfaces ==
    (pure.fn = "upstreamCalls" /\ pure.arg.pc = "returned") =>
        \A i \in 1 .. Len(pure.arg.calls) : ~FetchThrows(pure.arg.calls[i].answer)

----------------------------------------------------------------------------
\* The feeds whose fetch is in flight
InFlight == { i \in FeedIds : pure.arg.feeds[i].st \in {"fetch", "text"} }

\* C33: during searchWithRSS at most maxConcurrent feed fetches are in flight
\* at any moment, no feed of a batch is started before every feed of the
\* batches before it has settled, and the feeds are started in non-decreasing
\* priority number.
C33_BatchesInOrder ==
    FeedsProcess =>
        /\ Cardinality(InFlight) <= maxConcurrent
        /\ \A i, j \in FeedIds :
               (BatchOf(i) < BatchOf(j) /\ pure.arg.feeds[j].st # "waiting") =>
                   pure.arg.feeds[i].st = "settled"
        /\ \A i, j \in FeedIds :
               (pure.arg.feeds[i].st # "waiting" /\ pure.arg.feeds[j].st = "waiting") =>
                   feedsToUse[i].priority <= feedsToUse[j].priority

\* C33 witness: the two feeds of the first batch are in flight together while
\* the feed of priority 3 waits for its batch.
C33_Witness ==
    /\ FeedsProcess
    /\ InFlight = {1, 2}
    /\ pure.arg.feeds[3].st = "waiting"
    /\ feedsToUse[2].priority = 2
    /\ feedsToUse[3].priority = 3

----------------------------------------------------------------------------
\* Request r finishes its last provider stage in this step, no stage having
\* returned an article
FinishesExhausted(r) ==
    /\ route = "news"
    /\ req[r].pc \notin {"idle", "done"}
    /\ req'[r].pc = "done"
    /\ req'[r].got = << >>

\* C34: with two concurrent news requests on one key, a request whose stages
\* are all exhausted serves the cached articles whenever a fresh entry for
\* its key exists at the moment it finishes its last stage, also one the
\* other request wrote after this one started; and it never serves an entry
\* that has expired at that moment.
C34_ServesEntryFreshAtEnd ==
    [][ \A r \in ReqPair :
            FinishesExhausted(r) =>
                IF getCached(req[r].key) # << >>
                THEN req'[r].resp[1].articles = getCached(req[r].key)[1].articles
                ELSE req'[r].resp[1].articles = << >> ]_vars

----------------------------------------------------------------------------
\* C35: no news response holds more articles than the pageSize of the
\* request, whichever stage produced them (GET answers with the articles of
\* the stage as they are): no adapter of the news route returns more than
\* pageSize articles.
C35_WithinPageSize ==
    (pure.fn \in NewsAdapters /\ pure.depth = 1 /\ ~pure.ret.threw) =>
        Len(pure.ret.articles) <= pure.arg.pageSize

----------------------------------------------------------------------------
\* Time v lies inside the window [from, to], a null bound being no bound
InsideWindow(v, from, to) ==
    /\ ~IsNaNDate(v)
    /\ from # NullDate => v >= from
    /\ to # NullDate => v <= to

\* C36: for a request with a from or a to bound, every article of the response
\* has a publishedAt, as returned, inside the requested window, whichever
\* stage produced it, also when the upstream date was missing and the current
\* time took its place.
C36_PublishedAtInsideWindow ==
    (/\ pure.fn = "publishedAt" /\ pure.depth = 1
     /\ (pure.arg.from # NullDate \/ pure.arg.to # NullDate)
     /\ pure.ret.kept) =>
        InsideWindow(pure.ret.publishedAt, pure.arg.from, pure.arg.to)

----------------------------------------------------------------------------
\* C37: the two limiters are interchangeable: given the same request times of
\* a client, with the same window and limit, checkRateLimitMemory and
\* checkRateLimitUpstash give the same allowed decision and the same reset
\* time for each request.
C37_LimitersInterchangeable ==
    pure = BothLimiters =>
        \A i \in 1 .. Len(rlLog) :
            /\ rlLog[i].memory.allowed = rlLog[i].upstash.allowed
            /\ rlLog[i].memory.resetSec = rlLog[i].upstash.resetSec

----------------------------------------------------------------------------
\* C38: whenever the feed page is neither loading nor showing an error (the
\* filter effect has no timer pending, no request is in flight), the articles
\* shown are the response to a request made with the selected category,
\* search text and day: a slower response to an earlier selection never
\* overwrites a later one, and the retry button asks again with the current
\* filters.
C38_ShowsCurrentFilters ==
    (/\ pure.fn = "feedPage"
     /\ ~pure.arg.loading
     /\ pure.arg.error = << >>
     /\ pure.arg.timer = << >>
     /\ pure.arg.inFlight = << >>) =>
        pure.arg.articles =
            << ParamsOf(EffectOpts(pure.arg.selectedCategory, pure.arg.searchQuery,
                                   pure.arg.selectedDay)) >>

====
